---- MODULE Spec2Model ----
(***************************************************************************)
(* TR-909 rhythm composer: the pattern memory, the playback queue and the  *)
(* look-ahead scheduler of the engine, with the control-surface handlers   *)
(* that drive them.                                                        *)
(*                                                                         *)
(* Time.  The audio clock and every target time are integers in units of   *)
(* 0.1 ms / TimeRes.  Target times are kept RELATIVE to the audio clock    *)
(* (nextNoteTime - currentTime): the code only ever compares a target time *)
(* with the clock or with another target time, so the difference is all    *)
(* that is observable.  One Tick advances the clock by one host-timer      *)
(* period (#lookahead).                                                    *)
(*                                                                         *)
(* Arrays.  JavaScript arrays are 0-based; the queue is a TLA+ sequence,   *)
(* so entry i of the code is playbackQueue[i+1] here (operator QAt).       *)
(***************************************************************************)
EXTENDS Integers, Sequences, FiniteSets, TLC

(***************************************************************************)
(* Bounds of the model.                                                    *)
(***************************************************************************)
NumPatterns == 2        \* pattern numbers 0..NumPatterns-1 of B1/T1/PG1 are used
MaxQueue == 2           \* the queue never grows beyond this many slots in the model
MaxLate == 2            \* the host timer fires at most this many periods after it was set
MaxKey == 1             \* main keys 0..MaxKey are pressed (out of 0..15)

(***************************************************************************)
(* Program constants.                                                      *)
(***************************************************************************)
DefaultBASE == 16               \* #generateEmptyPattern p[12]
SwingFactor == 31               \* #swingFactor
FlamSpread == 20                \* #flamSpread
FlamBase == 21                  \* the 0.21 of the pre-hit lead, in hundredths
QueueCapacity == 120            \* consumeMk queue append limit
GroupSize == 16                 \* patterns in a pattern group
TimeRes == 31 * 100             \* sub-units per 0.1 ms: makes k/31 and k/100 of an interval exact
Lookahead == 200 * TimeRes      \* #lookahead = 20 ms
ScheduleAheadTime == 800 * TimeRes  \* #scheduleAheadTime = 80 ms
TempoValues == {250}            \* instSettings['tempo_wheel'][0] values used

Undef == <<>>                   \* JavaScript undefined (a missing array entry)

PatNums == 0 .. (NumPatterns - 1)
Addresses == {<<"B1", "T1", "PG1", n>> : n \in PatNums}
KeyIds == 0 .. MaxKey
\* the addresses a main key can select: key k is pattern k of the group
KeyAddresses == {<<"B1", "T1", "PG1", n>> : n \in PatNums \cup KeyIds}

(***************************************************************************)
(* Pure helpers.                                                           *)
(***************************************************************************)
\* JavaScript % : the result has the sign of the dividend.
JsRem(a, b) == IF a >= 0 THEN a % b ELSE 0 - ((0 - a) % b)

Max(a, b) == IF a >= b THEN a ELSE b

\* offsets in which a track takes the room of two pattern groups only
memoryCodesOfNarrowTracks(c) ==
  CASE c = "B1" -> 0  [] c = "B2" -> 192
    [] c = "T1" -> 0  [] c = "T2" -> 32 [] c = "T3" -> 64 [] c = "T4" -> 96
    [] c = "PG1" -> 0 [] c = "PG2" -> 16 [] c = "PG3" -> 32

memoryCodes(c) ==
  CASE c = "B1" -> 0  [] c = "B2" -> 192
    [] c = "T1" -> 0  [] c = "T2" -> 48 [] c = "T3" -> 96 [] c = "T4" -> 144
    [] c = "PG1" -> 0 [] c = "PG2" -> 16 [] c = "PG3" -> 32

getPatternMemoryLocation(sc) ==
  memoryCodes(sc[1]) + memoryCodes(sc[2]) + memoryCodes(sc[3]) + sc[4]

\* #getPatternGroupLocation
getPatternGroupLocation(sc) ==
  memoryCodes(sc[1]) + memoryCodes(sc[2]) + memoryCodes(sc[3])

\* the records the model keeps: those the main keys address in the pattern
\* groups PG1 and PG2 of bank 1, track 1 (every other record of the 384
\* stays an empty pattern)
MemIndices ==
  {getPatternMemoryLocation([a EXCEPT ![3] = g]) :
     a \in KeyAddresses, g \in {"PG1", "PG2"}}

\* A pattern record: the scalar fields [11],[12],[13],[14],[16],[17], the
\* eleven step arrays [0]..[10] and the flam flags [15].
\* shuffle is the numerator of shuffleFactor = shuffle / SwingFactor,
\* flam the numerator of flamFactor = flam / FlamSpread.
\* notes holds the step arrays by their non-zero entries: notes[<<c, i>>] is
\* the value of step i of channel c, and a pair outside its domain is a step
\* that holds 0; flams holds the non-zero flam flags by channel in the same way.
generateEmptyPattern ==
  [scale |-> 1, BASE |-> DefaultBASE, shuffle |-> 0, flam |-> 0,
   firstBeat |-> 0, invert |-> 0, notes |-> <<>>, flams |-> <<>>]

\* array[k] of an array kept by its non-zero entries
At(f, k) == IF k \in DOMAIN f THEN f[k] ELSE 0

\* array[k] = v
Put(f, k, v) ==
  [x \in (IF v = 0 THEN DOMAIN f \ {k} ELSE DOMAIN f \cup {k}) |->
     IF x = k THEN v ELSE f[x]]

\* this.#playbackQueue[i] of the code (undefined outside the array and in holes)
QAt(q, i) == IF i >= 0 /\ i < Len(q) THEN q[i + 1] ELSE Undef

\* array[i] = v of the code for 0 <= i < length
QSet(q, i, v) == [q EXCEPT ![i + 1] = v]

GridOf(scale) ==
  CASE scale = 1 -> 4 [] scale = 2 -> 8 [] scale = 3 -> 3 [] OTHER -> 6

\* 60.0 / (tempo * grid) seconds, in model time units
NominalBeat(tempo, grid) == (600000 \div (tempo * grid)) * TimeRes

VARIABLES
  memory,            \* #memory: memory index -> pattern record
  SELECTOR_CODE,     \* the currently edited / played address
  playbackQueue,     \* #playbackQueue
  patternNumber,     \* #patternNumber: the queue cursor (0-based)
  patternLocation,   \* #patternLocation
  beatRunnerCounter, \* #beatRunnerCounter
  BASE, firstBeat, invert, GLOBAL_SCALE, grid, shuffleFactor, flamFactor,
  CYCLE, TRACK_WRITE, isQueueTable, isBankTable, LAST_STEP, altKey,
  GLCV,              \* #GLCV: the mode the display shows ("LAST STEP") or Undef
  GLOBAL_SSC,        \* "START" | "STOP" | "CONT"
  tempo,             \* instSettings['tempo_wheel'][0]
  nextNoteTime,      \* nextNoteTime - audioCtx.currentTime
  flammedTime,       \* flammedTime - audioCtx.currentTime
  nntZero,           \* nextNoteTime is 0 (the CONT "machine was reloaded" test)
  clockStarted,      \* audioCtx.currentTime > 0
  timers,            \* pending setTimeout(#scheduler) callbacks: their ages in periods
  timerID,           \* index in timers of the callback this.timerID names, 0 if none
  alert,             \* the open confirmation dialog (Undef if none): what it will
                     \* clear, the address array it captured, and whether that
                     \* array is still the object this.SELECTOR_CODE names
  COPY_BUFFER,       \* #COPY_BUFFER when it holds queue entries
  collectPatternsForPreset, \* #collectPatternsForPreset: memory index -> the record object it holds
  savedPreset,       \* the preset file SAVE wrote last (Undef if none)
  SELECTED_INST,     \* the instrument the step keys write in STEP mode
  lastSELECTED_INST, \* the instrument kept while TOTAL ACCENT selects AC
  GLOBAL_MODE,       \* "STEP" | "TAP"
  instSelect,        \* #instSelect
  GLOBAL_Mk_TA,      \* GLOBAL_Mk_TA: TOTAL ACCENT is on
  COPY_TO,           \* #COPY_TO: the main keys pick the patterns to insert into
  COPY_TO_BUFFER,    \* #COPY_TO_BUFFER: the picked <<key, address>> pairs
  shares,            \* the holders (a memory index, or -1 for #COPY_BUFFER) whose
                     \* slot [15] names one and the same array object, as the
                     \* blocks of two or more holders
  muteBits,          \* #muteBits
  soloBits,          \* #soloBits
  safariPlaybackStop, \* #safariPlaybackStop
  offline,           \* the events of renderMachine's OfflineAudioContext
  \* ---- observation (history) variables, not program state ----
  snapshotOf,        \* #memory as it was when savedPreset was written
  overwritten,       \* channel, old and new value of the last step a main key wrote
  entered,           \* the edited address changed while the machine runs and no
                     \* step was dispatched since
  faulted,           \* a scheduler callback threw (and so did not re-arm the timer)
  dispatched,        \* the #scheduleNote calls made by the last handler, in order
  wrapped,           \* the pattern wraps #moveToNextPattern made in the last handler
  order,             \* target-time ordering of the dispatches
  stopCause,         \* what made GLOBAL_SSC "STOP" last
  rec,               \* what is observed: "log" (the run's dispatches), "order"
                     \* (the target-time order), "write" (the step writes),
                     \* "enter" (the pattern changes of a running machine),
                     \* "render" (step, interval and flam lead of each
                     \* dispatch) or "none"
  log                \* the dispatches of the run begun by the last Start (when rec)

vars == <<memory, SELECTOR_CODE, playbackQueue, patternNumber, patternLocation,
          beatRunnerCounter, BASE, firstBeat, invert, GLOBAL_SCALE, grid,
          shuffleFactor, flamFactor, CYCLE, TRACK_WRITE, isQueueTable,
          isBankTable, LAST_STEP, altKey, GLCV, GLOBAL_SSC, tempo, nextNoteTime,
          flammedTime, nntZero, clockStarted, timers, timerID, alert, COPY_BUFFER, faulted,
          dispatched, wrapped, order, stopCause, rec, log,
          collectPatternsForPreset,
          savedPreset,
          snapshotOf,
          SELECTED_INST,
          lastSELECTED_INST,
          GLOBAL_MODE,
          instSelect,
          GLOBAL_Mk_TA,
          overwritten,
          COPY_TO,
          COPY_TO_BUFFER,
          shares,
          muteBits,
          soloBits,
          entered,
          safariPlaybackStop,
          offline>>

\* The engine as one record, so that handlers can be composed as functions.
Eng ==
  [memory |-> memory, SELECTOR_CODE |-> SELECTOR_CODE,
   playbackQueue |-> playbackQueue, patternNumber |-> patternNumber,
   patternLocation |-> patternLocation, beatRunnerCounter |-> beatRunnerCounter,
   BASE |-> BASE, firstBeat |-> firstBeat, invert |-> invert,
   GLOBAL_SCALE |-> GLOBAL_SCALE, grid |-> grid,
   shuffleFactor |-> shuffleFactor, flamFactor |-> flamFactor,
   CYCLE |-> CYCLE, TRACK_WRITE |-> TRACK_WRITE, isQueueTable |-> isQueueTable,
   isBankTable |-> isBankTable, LAST_STEP |-> LAST_STEP, altKey |-> altKey,
   GLCV |-> GLCV, GLOBAL_SSC |-> GLOBAL_SSC, tempo |-> tempo, nextNoteTime |-> nextNoteTime,
   flammedTime |-> flammedTime,
   nntZero |-> nntZero, clockStarted |-> clockStarted, timers |-> timers,
   timerID |-> timerID, alert |-> alert, COPY_BUFFER |-> COPY_BUFFER,
   faulted |-> faulted, dispatched |-> <<>>, wrapped |-> <<>>,
   order |-> order, stopCause |-> stopCause, rec |-> rec, log |-> log,
   collectPatternsForPreset |-> collectPatternsForPreset,
   savedPreset |-> savedPreset,
   snapshotOf |-> snapshotOf,
   SELECTED_INST |-> SELECTED_INST,
   lastSELECTED_INST |-> lastSELECTED_INST,
   GLOBAL_MODE |-> GLOBAL_MODE,
   instSelect |-> instSelect,
   GLOBAL_Mk_TA |-> GLOBAL_Mk_TA,
   overwritten |-> overwritten,
   COPY_TO |-> COPY_TO,
   COPY_TO_BUFFER |-> COPY_TO_BUFFER,
   shares |-> shares,
   muteBits |-> muteBits,
   soloBits |-> soloBits,
   entered |-> entered,
   safariPlaybackStop |-> safariPlaybackStop,
   offline |-> offline]

Commit(e) ==
  /\ memory' = e.memory
  /\ SELECTOR_CODE' = e.SELECTOR_CODE
  /\ playbackQueue' = e.playbackQueue
  /\ patternNumber' = e.patternNumber
  /\ patternLocation' = e.patternLocation
  /\ beatRunnerCounter' = e.beatRunnerCounter
  /\ BASE' = e.BASE
  /\ firstBeat' = e.firstBeat
  /\ invert' = e.invert
  /\ GLOBAL_SCALE' = e.GLOBAL_SCALE
  /\ grid' = e.grid
  /\ shuffleFactor' = e.shuffleFactor
  /\ flamFactor' = e.flamFactor
  /\ CYCLE' = e.CYCLE
  /\ TRACK_WRITE' = e.TRACK_WRITE
  /\ isQueueTable' = e.isQueueTable
  /\ isBankTable' = e.isBankTable
  /\ LAST_STEP' = e.LAST_STEP
  /\ altKey' = e.altKey
  /\ GLCV' = e.GLCV
  /\ GLOBAL_SSC' = e.GLOBAL_SSC
  /\ tempo' = e.tempo
  /\ nextNoteTime' = e.nextNoteTime
  /\ flammedTime' = e.flammedTime
  /\ nntZero' = e.nntZero
  /\ clockStarted' = e.clockStarted
  /\ timers' = e.timers
  /\ timerID' = e.timerID
  /\ alert' = e.alert
  /\ COPY_BUFFER' = e.COPY_BUFFER
  /\ faulted' = e.faulted
  /\ dispatched' = e.dispatched
  /\ wrapped' = e.wrapped
  /\ order' = e.order
  /\ stopCause' = e.stopCause
  /\ rec' = e.rec
  /\ log' = e.log
  /\ collectPatternsForPreset' = e.collectPatternsForPreset
  /\ savedPreset' = e.savedPreset
  /\ snapshotOf' = e.snapshotOf
  /\ SELECTED_INST' = e.SELECTED_INST
  /\ lastSELECTED_INST' = e.lastSELECTED_INST
  /\ GLOBAL_MODE' = e.GLOBAL_MODE
  /\ instSelect' = e.instSelect
  /\ GLOBAL_Mk_TA' = e.GLOBAL_Mk_TA
  /\ overwritten' = e.overwritten
  /\ COPY_TO' = e.COPY_TO
  /\ COPY_TO_BUFFER' = e.COPY_TO_BUFFER
  /\ shares' = e.shares
  /\ muteBits' = e.muteBits
  /\ soloBits' = e.soloBits
  /\ entered' = e.entered
  /\ safariPlaybackStop' = e.safariPlaybackStop
  /\ offline' = e.offline

(***************************************************************************)
(* Pattern change: the caches of the scheduler are re-read from the record *)
(* SELECTOR_CODE addresses.                                                *)
(***************************************************************************)
CurrentPattern(e) == e.memory[getPatternMemoryLocation(e.SELECTOR_CODE)]

\* The element of a one-element set.  Handlers are sequences of statements;
\* { f(x) : x \in {v} } names the engine after a statement as x, by value.
The(S) == CHOOSE x \in S : TRUE

updateScaleBase(e) ==
  [e EXCEPT !.GLOBAL_SCALE = CurrentPattern(e).scale,
            !.BASE = CurrentPattern(e).BASE,
            !.firstBeat = CurrentPattern(e).firstBeat]

updateSHUFFLEandFLAM(e) ==
  [e EXCEPT !.shuffleFactor = CurrentPattern(e).shuffle,
            !.flamFactor = CurrentPattern(e).flam]

updateInvertKeepsDirection(e) ==
  LET p == CurrentPattern(e)
  IN [e EXCEPT !.beatRunnerCounter = IF e.invert = 0 THEN p.firstBeat - 1 ELSE p.BASE]

updateInvert(e) ==
  LET p == CurrentPattern(e)
      newInvert == p.invert
  IN IF newInvert # e.invert
       THEN [e EXCEPT !.beatRunnerCounter =
                         IF newInvert = 0 THEN p.firstBeat + 1 ELSE p.BASE - 2,
                      !.invert = newInvert]
       ELSE [e EXCEPT !.beatRunnerCounter =
                         IF newInvert = 0 THEN p.firstBeat - 1 ELSE p.BASE]

changeGridForNewBASE(e) == [e EXCEPT !.grid = GridOf(e.GLOBAL_SCALE)]

\* an entry of #collectPatternsForPreset: the Map holds the record object
\* itself, which is a record of #memory (live) or, after #setMemory replaced
\* the memory, a record of the memory that was (rec: what it held then)
Live == [live |-> TRUE]
Kept(r) == [live |-> FALSE, rec |-> r]

\* pattern[12] < 16 || pattern[16] > 0
firstLastBeatPresent(p) == p.BASE < DefaultBASE \/ p.firstBeat > 0

\* activeInstruments.length > 0: some step of some channel is not 0
holdsSteps(p) == DOMAIN p.notes # {}

\* #checkPatternAndInstSTEP: the records of the pattern group SELECTOR_CODE
\* names are entered in, or removed from, #collectPatternsForPreset
checkPatternAndInstSTEP(e) ==
  LET group == { i \in MemIndices :
                   /\ i >= getPatternGroupLocation(e.SELECTOR_CODE)
                   /\ i < getPatternGroupLocation(e.SELECTOR_CODE) + GroupSize }
      set == { i \in group :
                 firstLastBeatPresent(e.memory[i]) \/ holdsSteps(e.memory[i]) }
      old == e.collectPatternsForPreset
  IN [e EXCEPT !.collectPatternsForPreset =
        [i \in ((DOMAIN old) \ group) \cup set |->
           IF i \in set THEN Live ELSE old[i]]]

\* the tail of changePattern: the caches follow the record now addressed
refreshCaches(e) ==
  The({ changeGridForNewBASE(e3) :
        e3 \in { updateInvert(e2) :
        e2 \in { updateSHUFFLEandFLAM(e1) :
        e1 \in { updateScaleBase(e0) :
        e0 \in { checkPatternAndInstSTEP(e) } } } } })

\* changePattern(patternId, selectorCode) with a selector code given:
\* SELECTOR_CODE becomes a new array (selectorCode.slice()), so an array an
\* open dialog captured is no longer the one SELECTOR_CODE names
changePatternSel(e, selectorCode) ==
  The({ refreshCaches(e1) :
        e1 \in { [e EXCEPT !.SELECTOR_CODE = selectorCode,
                           !.alert = IF @ = Undef THEN @ ELSE [@ EXCEPT ![3] = FALSE],
                           !.playbackQueue =
                              IF Len(@) = 1 THEN QSet(@, 0, selectorCode) ELSE @] } })

switchQTSlot(e, patternAddress) ==
  IF QAt(e.playbackQueue, patternAddress) # Undef
    THEN [e EXCEPT !.patternNumber = patternAddress]
    ELSE e

(***************************************************************************)
(* The scheduler.                                                          *)
(***************************************************************************)
\* the terminal edge the code tests: !invert ? BASE-1 : firstBeat
TerminalEdge(e) == IF e.invert = 0 THEN e.BASE - 1 ELSE e.firstBeat

\* !this.TRACK_WRITE + this.isBankTable + this.isQueueTable is falsy
EditLock(e) == e.TRACK_WRITE /\ ~e.isBankTable /\ ~e.isQueueTable

NextCursorNoLock(e) ==
  IF QAt(e.playbackQueue, e.patternNumber) = Undef THEN 0
  ELSE JsRem(e.patternNumber + 1, Len(e.playbackQueue))

NextCursor(e) ==
  IF QAt(e.playbackQueue, e.patternNumber) = Undef THEN 0
  ELSE IF ~EditLock(e)
    THEN JsRem(e.patternNumber + 1, Len(e.playbackQueue))
    ELSE e.patternNumber

\* #moveToNextPattern: the result is [e, thrown]; thrown when
\* this.#patternLocation[3] reads a missing queue entry.
moveToNextPattern(e, beatNumber) ==
  IF beatNumber # TerminalEdge(e) THEN [e |-> e, thrown |-> FALSE]
  ELSE
    The({ IF e1.patternLocation = Undef
            THEN [e |-> e1, thrown |-> TRUE]
            ELSE The({ [e |-> [changePatternSel(e2, e2.patternLocation) EXCEPT
                                 !.entered = @ \/ (e.rec = "enter"
                                    /\ e2.patternLocation # e.SELECTOR_CODE)],
                        thrown |-> FALSE] :
                       e2 \in { switchQTSlot(e1, e1.patternNumber) } }) :
          e1 \in { [e EXCEPT
                     !.patternNumber = NextCursor(e),
                     !.patternLocation = QAt(e.playbackQueue, NextCursor(e)),
                     !.wrapped = Append(@,
                        [from |-> e.patternNumber,
                         had |-> QAt(e.playbackQueue, e.patternNumber) # Undef,
                         lock |-> EditLock(e), len |-> Len(e.playbackQueue),
                         to |-> NextCursor(e),
                         head |-> QAt(e.playbackQueue, 0),
                         sel |-> QAt(e.playbackQueue, NextCursor(e)),
                         ssc |-> e.GLOBAL_SSC])] } })

moveBeatRunner(e) ==
  The({ IF r.thrown THEN r
        ELSE [e |-> [r.e EXCEPT !.beatRunnerCounter = JsRem(@ + 1, r.e.BASE)],
              thrown |-> FALSE] :
        r \in { moveToNextPattern(e1, e1.beatRunnerCounter) :
        e1 \in { [e EXCEPT !.firstBeat = CurrentPattern(e).firstBeat] } } })

moveBeatRunnerBackwardNoWrap(e) ==
  [e |-> [e EXCEPT !.firstBeat = CurrentPattern(e).firstBeat,
                   !.beatRunnerCounter = JsRem(e.BASE + @ - 1, e.BASE)],
   thrown |-> FALSE]

moveBeatRunnerBackward(e) ==
  The({ IF r.thrown THEN r
        ELSE [e |-> [r.e EXCEPT !.beatRunnerCounter =
                                   JsRem(r.e.BASE + @ - 1, r.e.BASE)],
              thrown |-> FALSE] :
        r \in { moveToNextPattern(e1, e1.beatRunnerCounter) :
        e1 \in { [e EXCEPT !.firstBeat = CurrentPattern(e).firstBeat] } } })

\* #scheduleNote(beatNumber, time): the step of the record SELECTOR_CODE
\* addresses is handed to the audio subsystem with target time `time`.
\* the hi-hat voice a value of the shared channel plays: closed, open or none
HatName(v) ==
  CASE v = 1 \/ v = 2 -> "C" [] v = 3 \/ v = 6 -> "O" [] OTHER -> ""

\* #playMachine, with nothing muted: some instrument that sounds at step
\* beatNumber of the record also plays its pre-hit at flammedTime
playsFlam(p, beatNumber) ==
  \/ \E c \in {1, 2, 4, 5, 6, 7, 8, 9, 10} :
       At(p.notes, <<c, beatNumber>>) # 0 /\ At(p.flams, c) # 0
  \/ /\ At(p.notes, <<3, beatNumber>>) # 0
     /\ \/ At(p.flams, 3) = 1 /\ HatName(At(p.notes, <<3, beatNumber>>)) # "O"
        \/ At(p.flams, 3) = 2 /\ HatName(At(p.notes, <<3, beatNumber>>)) # "C"
        \/ At(p.flams, 3) = 3

\* What is recorded of the call: the cursor, the address, the step, the
\* record's window, whether the step is the final one of a one-pass run
\* (Cycle off, cursor on the last entry, beat on the terminal edge), the
\* direction the beat runner has then, the target time, the time it passes
\* for the pre-hits, whether #playMachine plays a pre-hit, whether the
\* step is the first after a change of the address, and the scheduler's
\* caches next to the fields of the record.
scheduleNote(e, beatNumber, time) ==
  LET p == CurrentPattern(e)
      final == /\ ~e.CYCLE
               /\ e.patternNumber = Len(e.playbackQueue) - 1
               /\ beatNumber = (IF e.invert = 0 THEN e.BASE - 1 ELSE e.firstBeat)
  IN [e EXCEPT
        !.dispatched = Append(@,
           [q |-> e.patternNumber, sel |-> e.SELECTOR_CODE, step |-> beatNumber,
            first |-> p.firstBeat, base |-> p.BASE, final |-> final,
            ssc |-> e.GLOBAL_SSC, inv |-> e.invert, at |-> time,
            flam |-> e.flammedTime, flammed |-> playsFlam(p, beatNumber),
            entry |-> e.entered,
            cached |-> <<e.BASE, e.firstBeat, e.GLOBAL_SCALE, e.shuffleFactor,
                         e.flamFactor>>,
            held |-> <<p.BASE, p.firstBeat, p.scale, p.shuffle, p.flam>>]),
        !.entered = FALSE,
        !.order = IF e.rec # "order" THEN @ ELSE [@ EXCEPT
           !.has = TRUE, !.last = time,
           !.ok = @ /\ (e.order.has => time >= e.order.last),
           !.hasRun = TRUE,
           !.okRun = @ /\ (e.order.hasRun => time >= e.order.last),
           !.pastFinal = @ \/ (e.order.hasRun /\ e.order.lastFinal),
           !.lastFinal = final],
        !.log = IF e.rec = "log" /\ e.order.byStart
                  THEN Append(@, <<e.patternNumber, beatNumber>>) ELSE @]

SecondsPerBeatUnscaled(e) ==
  LET spb == NominalBeat(e.tempo, e.grid)
      sh  == e.shuffleFactor * spb
  IN IF e.beatRunnerCounter % 2 = 0 THEN spb + sh ELSE spb - sh

\* secondsPerBeat after the shuffle of the step just scheduled
SecondsPerBeat(e) ==
  LET spb == NominalBeat(e.tempo, e.grid)
      sh  == (e.shuffleFactor * spb) \div SwingFactor
  IN IF e.beatRunnerCounter % 2 = 0 THEN spb + sh ELSE spb - sh

\* (FLAM + 0.21) * secondsPerBeat for the record #patternLocation addresses
\* and the shuffled interval after the step just scheduled
flamLead(t) ==
  (((100 \div FlamSpread) * t.memory[getPatternMemoryLocation(t.patternLocation)].flam
      + FlamBase) * SecondsPerBeat(t)) \div 100

\* clearTimeout(this.timerID)
clearTimer(e) ==
  IF e.timerID = 0 THEN e
  ELSE [e EXCEPT !.timers = SubSeq(@, 1, e.timerID - 1)
                              \o SubSeq(@, e.timerID + 1, Len(@)),
                 !.timerID = 0]

\* this.timerID = setTimeout(this.#scheduler, this.#lookahead)
armTimer(e) ==
  [e EXCEPT !.timers = Append(@, 0), !.timerID = Len(e.timers) + 1]

playbackSTOPKeepsTimer(e) == e

\* #playbackTable['STOP']
playbackSTOP(e) == clearTimer(e)

RECURSIVE scheduler(_)
\* #playbackTable['CONT']
playbackCONT(e) ==
  The({ scheduler(e2) :
        e2 \in { [e1 EXCEPT
                   !.beatRunnerCounter =
                      IF @ < e1.firstBeat \/ @ > e1.BASE
                        THEN (IF e1.invert = 0 THEN e1.firstBeat - 1 ELSE e1.BASE)
                        ELSE @,
                   !.nextNoteTime = 0, !.nntZero = ~e1.clockStarted,
                   !.order.hasRun = FALSE,
                   !.order.byStart = @ /\ e1.stopCause # "terminal",
                   !.log = IF e1.stopCause # "terminal" THEN @ ELSE <<>>] :
        e1 \in { [e EXCEPT
                   !.beatRunnerCounter =
                      IF e.nntZero
                        THEN (IF e.invert = 0 THEN e.firstBeat - 1 ELSE e.BASE)
                        ELSE @] } } })

\* MainKey.handleClick('STOP'): the STOP/CONT key, also called by the
\* scheduler at the terminal step.
handleClickSTOP(e, cause) ==
  IF e.GLOBAL_SSC = "STOP"
    THEN The({ playbackCONT(e1) : e1 \in { [e EXCEPT !.GLOBAL_SSC = "CONT"] } })
    ELSE The({ playbackSTOP(e1) :
               e1 \in { [e EXCEPT !.GLOBAL_SSC = "STOP", !.stopCause = cause] } })

isTerminalStepAnyEntry(m) ==
  /\ ~m.CYCLE
  /\ m.beatRunnerCounter = TerminalEdge(m)

isTerminalStepOffByOne(m) ==
  /\ m.patternNumber = Len(m.playbackQueue)
  /\ ~m.CYCLE
  /\ m.beatRunnerCounter = TerminalEdge(m)

\* the scheduler's test for the last step of a one-pass run
isTerminalStep(m) ==
  /\ m.patternNumber = Len(m.playbackQueue) - 1
  /\ ~m.CYCLE
  /\ m.beatRunnerCounter = TerminalEdge(m)

\* one iteration of the scheduler's loop after the beat runner has moved
schedulerStep(m) ==
  IF isTerminalStep(m)
    THEN The({ handleClickSTOP(
                 [n EXCEPT !.log = IF n.rec # "render" THEN @
                                   ELSE Append(@, <<n.patternNumber,
                                                    n.beatRunnerCounter, 0, 0>>)],
                 "terminal") :
               n \in { scheduleNote(m, m.beatRunnerCounter, m.nextNoteTime) } })
    ELSE The({ \* the FLAM read throws when #patternLocation is undefined
               IF t.patternLocation = Undef THEN [t EXCEPT !.faulted = TRUE]
               ELSE scheduler(
                      [t EXCEPT !.flammedTime = t.nextNoteTime - flamLead(t),
                                !.log = IF t.rec # "render" THEN @
                                        ELSE Append(@, <<t.patternNumber,
                                                         t.beatRunnerCounter,
                                                         SecondsPerBeat(t),
                                                         flamLead(t)>>)]) :
               t \in { [n EXCEPT !.nextNoteTime = @ + SecondsPerBeat(n),
                                 !.nntZero = FALSE] :
               n \in { scheduleNote(m, m.beatRunnerCounter, m.nextNoteTime) } } })

scheduler(e) ==
  IF ~(e.nextNoteTime < ScheduleAheadTime) THEN armTimer(e)
  ELSE The({ IF r.thrown THEN [r.e EXCEPT !.faulted = TRUE]
             ELSE schedulerStep(r.e) :
             r \in { IF e.invert = 0 THEN moveBeatRunner(e)
                                     ELSE moveBeatRunnerBackward(e) } })

\* #playbackTable['START']
playbackSTART(e) ==
  The({ scheduler(s) :
        s \in { [c EXCEPT !.beatRunnerCounter =
                             IF c.invert = 0 THEN c.firstBeat - 1 ELSE c.BASE,
                          !.nextNoteTime = 0, !.nntZero = ~c.clockStarted,
                          !.order.hasRun = FALSE,
                          !.order.from = c.patternNumber,
                          !.order.byStart = TRUE,
                          !.log = IF c.rec = "log" THEN <<>> ELSE @] :
        c \in { clearTimer(e) } } })

(***************************************************************************)
(* Construction and preset load.                                           *)
(***************************************************************************)
\* relative times older than this are all alike to the code
TimeFloor == 0 - (MaxLate + 1) * Lookahead

Pat(first, base, inv) ==
  [generateEmptyPattern EXCEPT !.firstBeat = first, !.BASE = base, !.invert = inv]

\* memories a stored preset can hold (#loadPatternData)
FactoryPreset == [i \in MemIndices |-> generateEmptyPattern]
ShortPresets ==
  { [i \in MemIndices |-> Pat(i % 2, 2 + (i % 2), i % 2)],
    [i \in MemIndices |-> Pat(1, 3, 0)] }
RunPresets == { [i \in MemIndices |-> Pat(i % 2, 2 + (i % 2), i % 2)] }
SwingPresets ==
  { [i \in MemIndices |-> [Pat(0, 2, 0) EXCEPT !.shuffle = 3 * (i % 2)]] }

\* playback queues a stored preset can hold (#setupPlaybackQueue)
Queues == UNION {[1 .. n -> Addresses] : n \in 1 .. MaxQueue}

NoOrder == [has |-> FALSE, last |-> 0, ok |-> TRUE, hasRun |-> FALSE,
            okRun |-> TRUE, pastFinal |-> FALSE, lastFinal |-> FALSE,
            from |-> 0, byStart |-> FALSE]

\* the engine's fields as the class declares them; started tells whether the
\* audio context's clock is already running (it stands at 0 while suspended)
Constructed(t, started) ==
  [memory |-> [i \in MemIndices |-> generateEmptyPattern],
   SELECTOR_CODE |-> <<"B1", "T1", "PG1", 0>>,
   playbackQueue |-> << <<"B1", "T1", "PG1", 0>> >>,
   patternNumber |-> 0, patternLocation |-> <<"B1", "T1", "PG1", 0>>,
   beatRunnerCounter |-> 0, BASE |-> DefaultBASE, firstBeat |-> 0, invert |-> 0,
   GLOBAL_SCALE |-> 1, grid |-> GridOf(1), shuffleFactor |-> 0, flamFactor |-> 0,
   CYCLE |-> FALSE, TRACK_WRITE |-> FALSE, isQueueTable |-> FALSE,
   isBankTable |-> FALSE, LAST_STEP |-> FALSE, altKey |-> FALSE,
   GLCV |-> Undef, GLOBAL_SSC |-> "STOP", tempo |-> t, nextNoteTime |-> 0, nntZero |-> TRUE,
   flammedTime |-> 0,
   clockStarted |-> started, timers |-> <<>>, timerID |-> 0, alert |-> Undef,
   COPY_BUFFER |-> <<>>, faulted |-> FALSE, dispatched |-> <<>>,
   wrapped |-> <<>>, order |-> NoOrder, stopCause |-> "none",
   rec |-> "order", log |-> <<>>,
   collectPatternsForPreset |-> <<>>,
   savedPreset |-> Undef,
   snapshotOf |-> <<>>,
   SELECTED_INST |-> "BD",
   lastSELECTED_INST |-> "BD",
   GLOBAL_MODE |-> "STEP",
   instSelect |-> FALSE,
   GLOBAL_Mk_TA |-> FALSE,
   overwritten |-> <<0, 0, 0>>,
   COPY_TO |-> FALSE,
   COPY_TO_BUFFER |-> {},
   shares |-> {},
   muteBits |-> 0,
   soloBits |-> 0,
   entered |-> FALSE,
   safariPlaybackStop |-> FALSE,
   offline |-> <<>>]

\* #setMemory without its call of changePattern
setMemoryKeepsCaches(e, mem, q) ==
  switchQTSlot([e EXCEPT !.memory = mem, !.playbackQueue = q, !.SELECTOR_CODE = q[1]], 0)

\* #setMemory(newState): the pattern records and the queue of a preset
\* The records the Map holds stay those of the memory that is replaced.
setMemory(e, mem, q) ==
  The({ switchQTSlot(e2, 0) :
        e2 \in { changePatternSel(e1, e1.SELECTOR_CODE) :
        e1 \in { [e EXCEPT !.memory = mem, !.playbackQueue = q,
                           !.SELECTOR_CODE = q[1],
                           !.collectPatternsForPreset =
                              [i \in DOMAIN @ |->
                                 IF @[i].live THEN Kept(e.memory[i]) ELSE @[i]]] } } })

Load(e) ==
  /\ memory = e.memory
  /\ SELECTOR_CODE = e.SELECTOR_CODE
  /\ playbackQueue = e.playbackQueue
  /\ patternNumber = e.patternNumber
  /\ patternLocation = e.patternLocation
  /\ beatRunnerCounter = e.beatRunnerCounter
  /\ BASE = e.BASE
  /\ firstBeat = e.firstBeat
  /\ invert = e.invert
  /\ GLOBAL_SCALE = e.GLOBAL_SCALE
  /\ grid = e.grid
  /\ shuffleFactor = e.shuffleFactor
  /\ flamFactor = e.flamFactor
  /\ CYCLE = e.CYCLE
  /\ TRACK_WRITE = e.TRACK_WRITE
  /\ isQueueTable = e.isQueueTable
  /\ isBankTable = e.isBankTable
  /\ LAST_STEP = e.LAST_STEP
  /\ altKey = e.altKey
  /\ GLCV = e.GLCV
  /\ GLOBAL_SSC = e.GLOBAL_SSC
  /\ tempo = e.tempo
  /\ nextNoteTime = e.nextNoteTime
  /\ flammedTime = e.flammedTime
  /\ nntZero = e.nntZero
  /\ clockStarted = e.clockStarted
  /\ timers = e.timers
  /\ timerID = e.timerID
  /\ alert = e.alert
  /\ COPY_BUFFER = e.COPY_BUFFER
  /\ faulted = e.faulted
  /\ dispatched = e.dispatched
  /\ wrapped = e.wrapped
  /\ order = e.order
  /\ stopCause = e.stopCause
  /\ rec = e.rec
  /\ log = e.log
  /\ collectPatternsForPreset = e.collectPatternsForPreset
  /\ savedPreset = e.savedPreset
  /\ snapshotOf = e.snapshotOf
  /\ SELECTED_INST = e.SELECTED_INST
  /\ lastSELECTED_INST = e.lastSELECTED_INST
  /\ GLOBAL_MODE = e.GLOBAL_MODE
  /\ instSelect = e.instSelect
  /\ GLOBAL_Mk_TA = e.GLOBAL_Mk_TA
  /\ overwritten = e.overwritten
  /\ COPY_TO = e.COPY_TO
  /\ COPY_TO_BUFFER = e.COPY_TO_BUFFER
  /\ shares = e.shares
  /\ muteBits = e.muteBits
  /\ soloBits = e.soloBits
  /\ entered = e.entered
  /\ safariPlaybackStop = e.safariPlaybackStop
  /\ offline = e.offline

(***************************************************************************)
(* Handlers of the control surface and the host's timer.                   *)
(***************************************************************************)
\* MainKey.handleClick('START')
StartKey ==
  /\ alert = Undef
  /\ \E e \in {[Eng EXCEPT !.GLOBAL_SSC = "START"]} :
       \E r \in {playbackSTART(e)} : Commit(r)

\* MainKey.handleClick('STOP'): Stop while running, Continue while stopped
StopKey ==
  /\ alert = Undef
  /\ \E e \in {Eng} : \E r \in {handleClickSTOP(e, "key")} : Commit(r)

\* #NO_SHIFT_TABLE['CG']
CycleKey ==
  /\ alert = Undef
  /\ ~TRACK_WRITE
  /\ Commit([Eng EXCEPT !.CYCLE = ~@])

\* #NO_SHIFT_TABLE['TS-PM']
PlayModeKey ==
  /\ alert = Undef
  /\ ~TRACK_WRITE
  /\ Commit([Eng EXCEPT !.invert = IF @ # 0 THEN 0 ELSE 1])

\* The audio clock advances by one host-timer period.  While no callback is
\* pending the engine reads the clock only to overwrite nextNoteTime (START,
\* CONT), so the passing of time is followed only while one is pending.
Tick ==
  /\ timers # <<>>
  /\ \A i \in 1 .. Len(timers) : timers[i] < MaxLate
  /\ Commit([Eng EXCEPT !.nextNoteTime = Max(@ - Lookahead, TimeFloor),
                        !.flammedTime = Max(@ - Lookahead, TimeFloor),
                        !.order.last = IF rec # "order" THEN @
                                        ELSE Max(@ - Lookahead, TimeFloor),
                        !.clockStarted = TRUE,
                        !.timers = [i \in 1 .. Len(@) |-> @[i] + 1]])

\* the host runs a pending setTimeout(#scheduler) callback
TimerFire ==
  \E i \in 1 .. Len(timers) :
    /\ timers[i] >= 1
    /\ \E e \in {[Eng EXCEPT
                   !.timers = SubSeq(@, 1, i - 1) \o SubSeq(@, i + 1, Len(@)),
                   !.timerID = IF @ = i THEN 0 ELSE IF @ > i THEN @ - 1 ELSE @]} :
         \E r \in {scheduler(e)} : Commit(r)

Next == StartKey \/ StopKey \/ CycleKey \/ PlayModeKey \/ Tick \/ TimerFire

Spec ==
  /\ \E t \in TempoValues, st \in BOOLEAN, mem \in RunPresets, q \in Queues :
       \E e \in {setMemory(Constructed(t, st), mem, q)} : Load(e)
  /\ [][Next]_vars

\* playback of patterns with shuffle

NextSwing == StartKey \/ StopKey \/ CycleKey \/ Tick \/ TimerFire

SpecSwing ==
  /\ \E t \in TempoValues, st \in BOOLEAN, mem \in SwingPresets, q \in Queues :
       \E e \in {setMemory(Constructed(t, st), mem, q)} : Load(e)
  /\ [][NextSwing]_vars

\* PatternSlotQueue.switchToPattern: a click on slot patternAddress of the
\* queue table
switchToPattern(e, patternAddress) ==
  IF e.GLOBAL_SSC # "STOP"
    THEN [e EXCEPT !.patternNumber = patternAddress - 1,
                   !.order.byStart = FALSE, !.log = <<>>]
    ELSE The({ [e2 EXCEPT !.patternLocation = QAt(e.playbackQueue, patternAddress),
                          !.order.byStart = FALSE, !.log = <<>>] :
               e2 \in { changePatternSel(e1, QAt(e.playbackQueue, patternAddress)) :
               e1 \in { switchQTSlot(e, patternAddress) } } })

SlotClick ==
  \E a \in 0 .. Len(playbackQueue) - 1 :
    /\ isQueueTable
    /\ QAt(playbackQueue, a) # Undef
    /\ \E e \in {Eng} : \E r \in {switchToPattern(e, a)} : Commit(r)

\* StatusBar.openPresetTable: the queue table is opened or closed
QueueTableKey ==
  /\ alert = Undef
  /\ Commit([Eng EXCEPT !.isBankTable = FALSE, !.isQueueTable = ~@])

\* one-pass runs, with every dispatch of the run recorded in log
SpecRun ==
  /\ \E t \in TempoValues, st \in BOOLEAN, mem \in RunPresets, q \in Queues :
       \E e \in {setMemory([Constructed(t, st) EXCEPT !.rec = "log"], mem, q)} : Load(e)
  /\ [][StartKey \/ StopKey \/ QueueTableKey \/ SlotClick \/ Tick \/ TimerFire]_vars

\* one-pass runs of the factory patterns (16 steps each), recorded in log
SpecPass ==
  /\ \E t \in TempoValues, st \in BOOLEAN, q \in Queues :
       \E e \in {setMemory([Constructed(t, st) EXCEPT !.rec = "log"], FactoryPreset, q)} :
         Load(e)
  /\ [][StartKey \/ StopKey \/ Tick \/ TimerFire]_vars

(***************************************************************************)
(* The main keys.                                                          *)
(***************************************************************************)
\* changePattern(patternId) without a selector code: the address array is
\* changed in place (an open dialog that captured it sees the change); the
\* result is [e, thrown], thrown when this.#playbackQueue[this.#patternNumber]
\* is missing
changePatternId(e, patternId) ==
  The({ IF QAt(e1.playbackQueue, e1.patternNumber) = Undef
          THEN [e |-> e1, thrown |-> TRUE]
          ELSE The({ [e |-> refreshCaches(e3), thrown |-> FALSE] :
                 e3 \in { [e2 EXCEPT !.playbackQueue =
                             IF e2.patternNumber = 0 \/ Len(@) = 1
                               THEN QSet(@, 0, e2.SELECTOR_CODE) ELSE @] :
                 e2 \in { [e1 EXCEPT !.playbackQueue =
                             QSet(@, e1.patternNumber,
                                  [QAt(@, e1.patternNumber) EXCEPT ![4] = patternId])]
                        } } }) :
        e1 \in { [e EXCEPT !.SELECTOR_CODE = [@ EXCEPT ![4] = patternId],
                           !.alert = IF @ # Undef /\ @[3]
                                       THEN [@ EXCEPT ![2] = [@ EXCEPT ![4] = patternId]]
                                       ELSE @] } })

\* #writeToPattern(16, payload) and #writeToPattern(12, payload)
writeFirstBeat(e, payload) ==
  [e EXCEPT !.memory[getPatternMemoryLocation(e.SELECTOR_CODE)].firstBeat = payload]

writeBASE(e, payload) ==
  [e EXCEPT !.memory[getPatternMemoryLocation(e.SELECTOR_CODE)].BASE = payload]

\* #I: the step array (channel) of an instrument; the two hi-hats share one
I(inst) ==
  CASE inst = "AC" -> 0 [] inst = "RD" -> 1 [] inst = "CR" -> 2
    [] inst \in {"HHC", "HHO"} -> 3 [] inst = "HC" -> 4 [] inst = "RS" -> 5
    [] inst = "HT" -> 6 [] inst = "MT" -> 7 [] inst = "LT" -> 8
    [] inst = "SD" -> 9 [] inst = "BD" -> 10

\* <MainKey elementId={k} INST=.../>: the instrument printed on main key k
InstOfKey(k) ==
  CASE k \in {0, 1} -> "BD" [] k \in {2, 3} -> "SD" [] k \in {4, 5} -> "LT"
    [] k \in {6, 7} -> "MT" [] k \in {8, 9} -> "HT" [] k = 10 -> "RS"
    [] k = 11 -> "HC" [] k = 12 -> "HHC" [] k = 13 -> "HHO" [] k = 14 -> "CR"
    [] k = 15 -> "RD"

\* a closed hat that counts on from the open hat it finds
getUpdatedMemorySlotOverOpen(e, elementId, stepINST, tapINST) ==
  LET p == CurrentPattern(e)
      hho(state) == IF state < 3 THEN 3 ELSE (state + 3) % 9
  IN IF e.GLOBAL_MODE = "STEP" \/ stepINST = "AC"
       THEN The({ IF stepINST = "HHO" THEN hho(state) ELSE IF state >= 3 THEN state + 1 ELSE (state + 1) % 3 :
                  state \in { At(p.notes, <<I(stepINST), elementId>>) } })
     ELSE IF e.beatRunnerCounter \notin 0 .. (GroupSize - 1) THEN Undef
     ELSE The({ IF e.GLOBAL_SSC = "STOP" THEN state
                ELSE IF elementId < 10
                  THEN IF elementId % 2 = 0 THEN (state + 1) % 2
                       ELSE IF state < 2 THEN 2 ELSE (state + 2) % 4
                ELSE IF tapINST = "HHO" THEN hho(state) ELSE IF state >= 3 THEN state + 1 ELSE (state + 1) % 3 :
                state \in { At(p.notes, <<I(tapINST), e.beatRunnerCounter>>) } })

\* getUpdatedMemorySlot(elementId, stepINST, tapINST): the value a press of
\* main key elementId gives the step it addresses.  In TAP mode that step is
\* the one the beat runner stands on; outside 0..15 there is no such step,
\* the arithmetic gives NaN and the write that follows is dropped (Undef).
getUpdatedMemorySlot(e, elementId, stepINST, tapINST) ==
  LET p == CurrentPattern(e)
      hho(state) == IF state < 3 THEN 3 ELSE (state + 3) % 9
  IN IF e.GLOBAL_MODE = "STEP" \/ stepINST = "AC"
       THEN The({ IF stepINST = "HHO" THEN hho(state) ELSE (state + 1) % 3 :
                  state \in { At(p.notes, <<I(stepINST), elementId>>) } })
     ELSE IF e.beatRunnerCounter \notin 0 .. (GroupSize - 1) THEN Undef
     ELSE The({ IF e.GLOBAL_SSC = "STOP" THEN state
                ELSE IF elementId < 10
                  THEN IF elementId % 2 = 0 THEN (state + 1) % 2
                       ELSE IF state < 2 THEN 2 ELSE (state + 2) % 4
                ELSE IF tapINST = "HHO" THEN hho(state) ELSE (state + 1) % 3 :
                state \in { At(p.notes, <<I(tapINST), e.beatRunnerCounter>>) } })

\* MainKey.handleClick: the payload of consumeMk.  With SHIFT a key inside
\* the window (any key in TAP mode) asks getUpdatedMemorySlot; otherwise the
\* payload is the state the key shows, which setMksState took from the step
\* array of the selected instrument.
newState(e, elementId) ==
  IF e.TRACK_WRITE /\ (e.GLOBAL_MODE = "TAP"
                        \/ (elementId >= e.firstBeat /\ elementId < e.BASE))
    THEN getUpdatedMemorySlot(e, elementId, e.SELECTED_INST, InstOfKey(elementId))
    ELSE At(CurrentPattern(e).notes, <<I(e.SELECTED_INST), elementId>>)

\* patternLocation[channel][step] = payload on a Uint8Array: an index outside
\* 0..15 leaves the steps as they are
writeStep(e, channel, step, payload) ==
  IF step \notin 0 .. (GroupSize - 1) THEN e
  ELSE [e EXCEPT !.memory[getPatternMemoryLocation(e.SELECTOR_CODE)].notes =
                    Put(@, <<channel, step>>, payload),
                 !.overwritten =
                    IF e.rec # "write" THEN @
                    ELSE <<channel, At(CurrentPattern(e).notes, <<channel, step>>),
                           payload>>]

\* the branch of consumeMk a press takes.  The bank table and the SHUFF/FLAM
\* mode are never entered here, so their branches are not taken.
MkBranch(e, alt) ==
  CASE e.GLCV # "INST SELECT" /\ ~e.isBankTable /\ ~e.isQueueTable /\ ~e.TRACK_WRITE
         -> "position"
    [] OTHER ->
  CASE e.TRACK_WRITE /\ (alt \/ e.altKey) /\ e.isQueueTable /\ ~e.LAST_STEP
         -> "pattern"
    [] OTHER ->
  CASE (e.GLCV = "INST SELECT" /\ ~e.COPY_TO)
       \/ ((alt \/ e.altKey) /\ ~e.LAST_STEP /\ e.GLCV # "TOTAL ACCENT")
         -> "instrument"
    [] OTHER ->
  CASE e.COPY_TO /\ e.TRACK_WRITE /\ ~e.isBankTable -> "copy to"
    [] OTHER ->
  CASE e.LAST_STEP -> "last step"
    [] OTHER ->
  CASE e.isQueueTable /\ ~e.TRACK_WRITE /\ ~e.instSelect -> "queue"
    [] OTHER ->
  CASE e.instSelect /\ e.GLOBAL_MODE = "STEP" -> "instrument"
    [] OTHER -> "note"

\* consumeMk(elementId, INST, payload, altKey): main key elementId is pressed,
\* with the keyboard's Alt held or not.
consumeMk(e, elementId, alt) ==
  CASE MkBranch(e, alt) = "position" ->
         \* start playback from a specific position
         [e EXCEPT !.beatRunnerCounter =
                      IF e.invert = 0 THEN elementId - 1 ELSE elementId + 1]
    [] MkBranch(e, alt) = "pattern" ->
         \* pattern selection in the queue table
         The({ IF r.thrown THEN r.e
               ELSE [r.e EXCEPT !.patternLocation = r.e.SELECTOR_CODE] :
               r \in { changePatternId(e, elementId) } })
    [] MkBranch(e, alt) = "instrument" ->
         \* #changeInstrument(INST)
         [e EXCEPT !.SELECTED_INST = InstOfKey(elementId)]
    [] MkBranch(e, alt) = "copy to" ->
         \* the pattern of the key is picked, or dropped when it was picked
         [e EXCEPT !.COPY_TO_BUFFER =
                      IF \E c \in @ : c[1] = elementId
                        THEN { c \in @ : c[1] # elementId }
                        ELSE @ \cup { <<elementId,
                                         [e.SELECTOR_CODE EXCEPT ![4] = elementId]>> }]
    [] MkBranch(e, alt) = "last step" ->
         IF alt \/ e.altKey
           THEN IF elementId >= e.BASE THEN e
                ELSE The({ changeGridForNewBASE(e2) :
                           e2 \in { writeFirstBeat(e1, elementId) :
                           e1 \in { [e EXCEPT !.firstBeat = elementId] } } })
           ELSE IF elementId < e.firstBeat THEN e
                ELSE The({ changeGridForNewBASE(e2) :
                           e2 \in { IF e1.TRACK_WRITE THEN writeBASE(e1, e1.BASE)
                                    ELSE e1 :
                           e1 \in { [e EXCEPT !.BASE = elementId + 1] } } })
    [] MkBranch(e, alt) = "queue" ->
         IF Len(e.playbackQueue) < QueueCapacity
           THEN [e EXCEPT !.playbackQueue =
                            Append(@, [e.SELECTOR_CODE EXCEPT ![4] = elementId])]
           ELSE e
    [] MkBranch(e, alt) = "note" ->
         \* a note is written to or removed from the pattern
         IF e.GLOBAL_MODE = "TAP"
           THEN IF e.SELECTED_INST = "AC"
                  THEN writeStep(e, I("AC"), elementId, newState(e, elementId))
                ELSE IF e.TRACK_WRITE /\ e.GLOBAL_SSC # "STOP"
                  THEN writeStep(e, I(InstOfKey(elementId)), e.beatRunnerCounter,
                                 newState(e, elementId))
                ELSE e
           ELSE IF e.TRACK_WRITE
                  THEN writeStep(e, I(e.SELECTED_INST), elementId,
                                 newState(e, elementId))
                ELSE e

\* Mk.handleClick: a main key is pressed (mouse or keyboard) and addresses a
\* position, a pattern, the window or the queue
MainKey ==
  \E k \in KeyIds, a \in BOOLEAN :
    /\ alert = Undef
    /\ MkBranch(Eng, a) \notin {"instrument", "note"}
    /\ \E e \in {Eng} : \E r \in {consumeMk(e, k, a)} :
         /\ \/ Len(r.playbackQueue) <= MaxQueue
            \/ Len(playbackQueue) >= QueueCapacity - MaxQueue
         /\ Commit(r)

\* playback with main keys pressed
SpecKeys ==
  /\ \E t \in TempoValues, st \in BOOLEAN, mem \in ShortPresets, q \in Queues :
       \E e \in {setMemory([Constructed(t, st) EXCEPT !.rec = "none"], mem, q)} : Load(e)
  /\ [][StartKey \/ StopKey \/ MainKey \/ Tick \/ TimerFire]_vars

(***************************************************************************)
(* SHIFT, the LAST STEP and CLEAR keys, the confirmation dialog.           *)
(***************************************************************************)
\* a fallback that leaves the LAST STEP mode on
ensureSHIFTKeepsLastStep(e) ==
  [e EXCEPT !.instSelect = FALSE, !.GLOBAL_Mk_TA = FALSE,
            !.altKey = FALSE, !.GLCV = Undef, !.COPY_TO_BUFFER = {},
            !.COPY_TO = FALSE]

\* ensureSHIFTFallsBackClean(): every mode that SHIFT opened is closed
ensureSHIFTFallsBackClean(e) ==
  [e EXCEPT !.LAST_STEP = FALSE, !.instSelect = FALSE, !.GLOBAL_Mk_TA = FALSE,
            !.altKey = FALSE, !.GLCV = Undef, !.COPY_TO_BUFFER = {},
            !.COPY_TO = FALSE]

\* ShiftKey.handleClick: SHIFT locks and unlocks TRACK_WRITE.  The keyboard's
\* Shift reaches it through StateSetters, whatever dialog is open.
ShiftKey ==
  \E e \in {ensureSHIFTFallsBackClean(Eng)} :
    \E r \in {checkPatternAndInstSTEP(
               IF e.TRACK_WRITE
                 THEN [e EXCEPT !.TRACK_WRITE = FALSE,
                                !.SELECTED_INST = e.lastSELECTED_INST]
                 ELSE [e EXCEPT !.TRACK_WRITE = TRUE,
                                !.lastSELECTED_INST = e.SELECTED_INST])} : Commit(r)

\* #GLCV_SWAP(elementId): the mode shown before is switched off
GLCV_SWAP(e, elementId) ==
  [e EXCEPT !.LAST_STEP = IF e.GLCV = "LAST STEP" THEN FALSE ELSE @,
            !.instSelect = IF e.GLCV = "INST SELECT" THEN FALSE ELSE @,
            !.GLOBAL_Mk_TA = IF e.GLCV = "TOTAL ACCENT" THEN FALSE ELSE @,
            !.SELECTED_INST = IF e.GLCV = "TOTAL ACCENT" THEN e.lastSELECTED_INST
                              ELSE @,
            !.GLCV = elementId]

manageGLCV(e, on, elementId) ==
  IF on THEN GLCV_SWAP(e, elementId) ELSE [e EXCEPT !.GLCV = Undef]

\* #SHIFT_TABLE['LAST STEP']
ShiftLastStep(e) ==
  The({ [e2 EXCEPT !.COPY_TO = FALSE] :
        e2 \in { manageGLCV(e1, e1.LAST_STEP, "LAST STEP") :
        e1 \in { [e EXCEPT !.LAST_STEP = ~@] } } })

\* #NO_SHIFT_TABLE['LAST STEP']: the last queue entry is removed
NoShiftLastStep(e) ==
  IF ~e.isQueueTable THEN e
  ELSE IF Len(e.playbackQueue) > 1
    THEN [e EXCEPT !.playbackQueue = SubSeq(@, 1, Len(@) - 1)]
    ELSE [e EXCEPT !.playbackQueue = QSet(@, 0, e.SELECTOR_CODE)]

\* LedKey.handleClick('LAST STEP') -> consumeLedKey.  Without SHIFT the key
\* takes clicks only while the queue table shows two or more slots.
LastStepKey ==
  /\ alert = Undef
  /\ TRACK_WRITE \/ (isQueueTable /\ Len(playbackQueue) >= 2)
  /\ \E e \in {Eng} :
       \E r \in {IF e.TRACK_WRITE THEN ShiftLastStep(e) ELSE NoShiftLastStep(e)} :
         Commit(r)

\* #NO_SHIFT_TABLE['INST SELECT'], which #SHIFT_TABLE['INST SELECT'] calls
\* before it leaves the copy mode
InstSelectKey ==
  /\ alert = Undef
  /\ \E e \in {[Eng EXCEPT !.instSelect = ~@]} :
       \E r \in {manageGLCV(e, e.instSelect, "INST SELECT")} :
         Commit([r EXCEPT !.COPY_TO = IF r.TRACK_WRITE THEN FALSE ELSE @])

\* #SHIFT_TABLE['CE-TA']: TOTAL ACCENT puts the accent track under the main
\* keys and gives the instrument back afterwards.  The key takes clicks with
\* SHIFT only.
TotalAccentKey ==
  /\ alert = Undef
  /\ TRACK_WRITE
  /\ \E e \in {[Eng EXCEPT !.GLOBAL_Mk_TA = ~@]} :
       \E r \in {manageGLCV(e, e.GLOBAL_Mk_TA, "TOTAL ACCENT")} :
         Commit(IF r.GLOBAL_Mk_TA
                  THEN [r EXCEPT !.lastSELECTED_INST = r.SELECTED_INST,
                                 !.SELECTED_INST = "AC"]
                  ELSE [r EXCEPT !.SELECTED_INST = r.lastSELECTED_INST])

\* #SHIFT_TABLE['TEMPO-STEP'] and #SHIFT_TABLE['BACK-TAP']: STEP or TAP write
StepTapKey ==
  /\ alert = Undef
  /\ TRACK_WRITE
  /\ \E m \in {"STEP", "TAP"} :
       \E e \in {[Eng EXCEPT !.GLOBAL_MODE = m]} :
         Commit(IF m = "STEP" THEN checkPatternAndInstSTEP(e) ELSE e)

\* Mk.handleClick: one of the main keys labelled HHC (12) and HHO (13) is
\* pressed and selects an instrument or writes a step
StepKey ==
  \E k \in {12, 13}, a \in BOOLEAN :
    /\ alert = Undef
    /\ MkBranch(Eng, a) \in {"instrument", "note"}
    /\ \E e \in {Eng} : \E r \in {consumeMk(e, k, a)} : Commit(r)

\* clearPattern() and #clearLastFirstStep() before confirmation: the dialog
\* keeps the array this.SELECTOR_CODE names at this moment
clearPattern(e) == [e EXCEPT !.alert = <<"PATTERN", e.SELECTOR_CODE, TRUE>>]

clearLastFirstStep(e) ==
  [e EXCEPT !.alert = <<"FIRST/LAST STEP", e.SELECTOR_CODE, TRUE>>]

\* #SHIFT_TABLE['CLEAR'] (the key takes no clicks without SHIFT).  Under
\* INST SELECT it calls clearInstrument(), whose dialog keeps the selected
\* instrument as well.
ShiftClear(e) ==
  IF e.COPY_TO THEN [e EXCEPT !.COPY_TO_BUFFER = {}]
  ELSE IF e.GLCV = "LAST STEP" THEN clearLastFirstStep(e)
  ELSE IF e.GLCV = "INST SELECT"
    THEN [e EXCEPT !.alert = <<"INSTRUMENT", e.SELECTOR_CODE, TRUE, e.SELECTED_INST>>]
  ELSE clearPattern(e)

ClearKey ==
  /\ alert = Undef
  /\ TRACK_WRITE
  /\ \E e \in {Eng} : \E r \in {ShiftClear(e)} : Commit(r)

\* the holders whose slot [15] is the array object holder h names
Sharers(e, h) == {h} \cup UNION { b \in e.shares : h \in b }

\* holder[15] = array.slice(): the slot of holder h names a new array object
newFlams(sh, h) == { b \ {h} : b \in { x \in sh : Cardinality(x \ {h}) >= 2 } }

\* patternLocation[15].fill(0) and patternLocation[15][i] = v: the array object
\* slot [15] of record l names is written in place, so that every holder of
\* the object reads the new contents f
writeFlams(e, l, f) ==
  [e EXCEPT !.memory = [i \in DOMAIN @ |->
                          IF i \in Sharers(e, l) THEN [@[i] EXCEPT !.flams = f]
                          ELSE @[i]],
            !.COPY_BUFFER = IF -1 \in Sharers(e, l)
                              THEN [@ EXCEPT !.pattern.flams = f] ELSE @]

\* #resetBaseScaleOthers; flammedTime = 0 is the start of the audio clock
resetBaseScaleOthers(e) ==
  [e EXCEPT !.GLOBAL_SCALE = 1, !.shuffleFactor = 0, !.flamFactor = 0,
            !.flammedTime = IF e.clockStarted THEN TimeFloor ELSE 0,
            !.BASE = DefaultBASE, !.grid = 4, !.firstBeat = 0, !.invert = 0]

\* a confirmed clear that leaves the flam flags of the record
clearPatternKeepsFlams(e, sc) ==
  The({ checkPatternAndInstSTEP(e2) : e2 \in {
        [e1 EXCEPT !.memory[getPatternMemoryLocation(sc)] =
                      [scale |-> e1.GLOBAL_SCALE, BASE |-> e1.BASE,
                       shuffle |-> e1.shuffleFactor, flam |-> e1.flamFactor,
                       firstBeat |-> e1.firstBeat, invert |-> e1.invert,
                       notes |-> <<>>, flams |-> @.flams],
                   !.alert = Undef] :
        e1 \in { resetBaseScaleOthers(e) } } })

\* clearPattern(undefined, true, _sc): the confirmed clear of the record the
\* captured address names
clearPatternConfirmed(e, sc) ==
  The({ checkPatternAndInstSTEP(e3) : e3 \in {
        writeFlams(e2, getPatternMemoryLocation(sc), <<>>) : e2 \in {
        [e1 EXCEPT !.memory[getPatternMemoryLocation(sc)] =
                      [scale |-> e1.GLOBAL_SCALE, BASE |-> e1.BASE,
                       shuffle |-> e1.shuffleFactor, flam |-> e1.flamFactor,
                       firstBeat |-> e1.firstBeat, invert |-> e1.invert,
                       notes |-> <<>>, flams |-> @.flams],
                   !.alert = Undef] :
        e1 \in { resetBaseScaleOthers(e) } } } })

\* a confirmed clear that empties the whole channel of any instrument
clearInstrumentWholeChannel(e, inst, sc) ==
  The({ checkPatternAndInstSTEP(e1) : e1 \in {
        [e EXCEPT !.memory[getPatternMemoryLocation(sc)].notes =
                     [k \in { x \in DOMAIN @ : x[1] # I(inst) } |-> @[k]],
                  !.alert = Undef] } })

\* clearInstrument(true, _inst, _sc): the confirmed clear of one instrument.
\* On the channel the hi-hats share HHC clears the steps up to 2 and HHO the
\* steps from 3.
clearInstrumentConfirmed(e, inst, sc) ==
  The({ checkPatternAndInstSTEP(e1) : e1 \in {
        [e EXCEPT !.memory[getPatternMemoryLocation(sc)].notes =
                     [k \in { x \in DOMAIN @ :
                                \/ x[1] # I(inst)
                                \/ inst = "HHC" /\ ~(@[x] <= 2)
                                \/ inst = "HHO" /\ ~(@[x] >= 3) } |-> @[k]],
                  !.alert = Undef] } })

\* clearX of #clearShufFlam(true), then upd()
clearX(e, sc) ==
  The({ [e4 EXCEPT !.alert = Undef] :
        e4 \in { checkPatternAndInstSTEP(e3) :
        e3 \in { changeGridForNewBASE(e2) :
        e2 \in { updateScaleBase(e1) :
        e1 \in { [e EXCEPT !.memory[getPatternMemoryLocation(sc)] =
                             [@ EXCEPT !.BASE = DefaultBASE, !.firstBeat = 0]] } } } } })

\* AlertHover: the dialog's CLEAR button
AlertOK ==
  /\ alert # Undef
  /\ \E e \in {Eng} :
       \E r \in {IF e.alert[1] = "PATTERN" THEN clearPatternConfirmed(e, e.alert[2])
                 ELSE IF e.alert[1] = "INSTRUMENT"
                   THEN clearInstrumentConfirmed(e, e.alert[4], e.alert[2])
                 ELSE clearX(e, e.alert[2])} : Commit(r)

\* AlertHover: the dialog's CANCEL button
AlertCancel ==
  /\ alert # Undef
  /\ Commit([Eng EXCEPT !.alert = Undef])

(***************************************************************************)
(* The DEL key of the queue table.                                         *)
(***************************************************************************)
\* array.length = n: the array is cut, or extended with holes
setLength(q, n) ==
  IF n <= Len(q) THEN SubSeq(q, 1, n)
  ELSE q \o [i \in 1 .. (n - Len(q)) |-> Undef]

\* #deletePatterns: the queue is cut behind the cursor.  The display update
\* that follows throws when the last entry is missing; nothing is changed
\* after it.
deletePatterns(e) ==
  IF e.TRACK_WRITE THEN e
  ELSE [e EXCEPT !.playbackQueue = setLength(@, e.patternNumber + 1)]

\* the index at which #deletePattern's shift loop ends
RECURSIVE fringeEnd(_, _)
fringeEnd(q, fringe) ==
  IF QAt(q, fringe) = Undef THEN fringe ELSE fringeEnd(q, fringe + 1)

\* #deletePattern: the entry under the cursor is removed; thrown when the
\* cursor then addresses no entry (changePattern reads entry[3])
deletePattern(e) ==
  IF ~(Len(e.playbackQueue) > 1) \/ fringeEnd(e.playbackQueue, e.patternNumber) = e.patternNumber
    THEN e
    ELSE The({ IF QAt(e3.playbackQueue, e3.patternNumber) = Undef THEN e3
               ELSE changePatternSel(e3, QAt(e3.playbackQueue, e3.patternNumber)) :
           e3 \in { switchQTSlot(e2, e2.patternNumber) :
           e2 \in { [e1 EXCEPT !.patternNumber =
                       IF QAt(e1.playbackQueue, @) = Undef THEN @ - 1 ELSE @] :
           e1 \in { [e EXCEPT !.playbackQueue =
                       SubSeq([i \in 1 .. Len(@) |->
                                 IF i - 1 >= e.patternNumber
                                    /\ i - 1 < fringeEnd(e.playbackQueue, e.patternNumber)
                                   THEN QAt(e.playbackQueue, i) ELSE @[i]],
                              1, Len(@) - 1)] } } } })

\* EditCommand onClick('DEL') -> consumeEditKey; the key takes clicks only
\* while the queue table (and no bank table) is open
DelKey ==
  /\ alert = Undef
  /\ isQueueTable /\ ~isBankTable
  /\ \E e \in {Eng} :
       \E r \in {IF e.TRACK_WRITE THEN deletePattern(e) ELSE deletePatterns(e)} :
         Commit(r)

\* pattern edits with SHIFT on a stopped machine
EditPresets ==
  { [i \in MemIndices |-> Pat(0, 2, 0)] }

EditQueues == { [i \in 1 .. MaxQueue |-> <<"B1", "T1", "PG1", (i - 1) % NumPatterns>>] }

SpecEdit ==
  /\ \E t \in TempoValues, mem \in EditPresets, q \in EditQueues :
       \E e \in {setMemory([Constructed(t, FALSE) EXCEPT !.rec = "none"], mem, q)} : Load(e)
  /\ [][
       \/ ShiftKey \/ QueueTableKey \/ SlotClick \/ LastStepKey \/ ClearKey
       \/ AlertOK \/ AlertCancel \/ MainKey
       ]_vars

\* queue edits during playback
InitQueue ==
  \E t \in TempoValues, st \in BOOLEAN, mem \in RunPresets, q \in EditQueues :
    \E e \in {setMemory([Constructed(t, st) EXCEPT !.rec = "none"], mem, q)} : Load(e)

SpecQueue ==
  /\ InitQueue
  /\ [][
       \/ StartKey \/ StopKey \/ CycleKey \/ ShiftKey \/ QueueTableKey \/ SlotClick
       \/ LastStepKey \/ DelKey \/ Tick \/ TimerFire
       ]_vars

\* the queue cursor at pattern wraps, with SHIFT and the queue table in play
SpecWrap ==
  /\ \E t \in TempoValues, st \in BOOLEAN, mem \in RunPresets, q \in EditQueues :
       \E e \in {setMemory([Constructed(t, st) EXCEPT !.rec = "none"], mem, q)} : Load(e)
  /\ [][
       \/ StartKey \/ ShiftKey \/ QueueTableKey \/ SlotClick \/ LastStepKey
       \/ Tick \/ TimerFire
       ]_vars

(***************************************************************************)
(* COPY and INS of the queue table, LOAD of a preset file.                 *)
(***************************************************************************)
\* #copyPatterns: the entries from the cursor to the end of the queue are
\* copied to the buffer; the loop throws at a missing entry (also at once
\* when the cursor is -1) and the buffer keeps what was copied before it
copyPatterns(e) ==
  IF e.isQueueTable /\ ~e.TRACK_WRITE
    THEN [e EXCEPT !.COPY_BUFFER =
            [j \in 1 .. (fringeEnd(e.playbackQueue, e.patternNumber) - e.patternNumber)
               |-> QAt(e.playbackQueue, e.patternNumber + j - 1)]]
    ELSE e

\* the index at which the loop of #pastePatterns stops
stopIdx(e) ==
  IF Len(e.COPY_BUFFER) + e.patternNumber + 1 <= QueueCapacity
    THEN Len(e.COPY_BUFFER) + e.patternNumber + 1 ELSE QueueCapacity

\* #pastePatterns: the buffer is written over the entries behind the cursor,
\* entry by entry (an assignment beyond the end extends the array)
pastePatterns(e) ==
  IF e.COPY_BUFFER = <<>> \/ e.TRACK_WRITE THEN e
  ELSE The({ [e EXCEPT !.playbackQueue =
                [i \in 1 .. (IF e.patternNumber + 1 < stop THEN Max(Len(@), stop)
                             ELSE Len(@)) |->
                   IF i - 1 >= e.patternNumber + 1 /\ i - 1 < stop
                     THEN e.COPY_BUFFER[i - 1 - e.patternNumber]
                     ELSE QAt(@, i - 1)]] :
             stop \in { stopIdx(e) } })

\* EditCommand onClick('COPY') -> consumeEditKey, without SHIFT (with SHIFT
\* the key copies the notes of a pattern)
CopyKey ==
  /\ alert = Undef
  /\ isQueueTable /\ ~isBankTable /\ ~TRACK_WRITE
  /\ \E e \in {[Eng EXCEPT !.COPY_TO = TRUE]} : \E r \in {copyPatterns(e)} : Commit(r)

\* EditCommand onClick('INS/UNDO') -> consumeEditKey, without SHIFT
InsKey ==
  /\ alert = Undef
  /\ isQueueTable /\ ~isBankTable /\ ~TRACK_WRITE
  /\ \E e \in {Eng} : \E r \in {pastePatterns(e)} : Commit(r)

\* the queue records a preset file can hold: the file's format check looks at
\* no length
FileQueues ==
  { [i \in 1 .. n |-> <<"B1", "T1", "PG1", 0>>] :
      n \in {QueueCapacity - 1, QueueCapacity, QueueCapacity + 1} }

\* #loadPreset: a preset file that passes the format check is made the
\* working memory
loadPreset(e, mem, q, cycle) ==
  [setMemory(e, mem, q) EXCEPT !.CYCLE = cycle]

\* EditCommandLoad onChange -> consumeEditKey('LOAD', file) with a user bank
\* current; while the queue table is open without SHIFT the command goes to
\* #handleQueueTableOperations, which has no case for it
LoadKey ==
  \E mem \in EditPresets, q \in FileQueues, cycle \in {FALSE} :
    /\ alert = Undef
    /\ ~(isQueueTable /\ ~TRACK_WRITE)
    /\ \E e \in {Eng} : \E r \in {loadPreset(e, mem, q, cycle)} : Commit(r)

\* a click on one of the last slots of the queue table
EdgeSlotClick ==
  \E a \in (Len(playbackQueue) - MaxQueue) .. (Len(playbackQueue) - 1) :
    /\ isQueueTable
    /\ QAt(playbackQueue, a) # Undef
    /\ \E e \in {Eng} : \E r \in {switchToPattern(e, a)} : Commit(r)

\* queue edits at the capacity of the queue, on a stopped machine
SpecFull ==
  /\ \E t \in TempoValues, mem \in EditPresets :
       \E e \in {setMemory([Constructed(t, FALSE) EXCEPT !.rec = "none"], mem,
                           [i \in 1 .. QueueCapacity - 1 |-> <<"B1", "T1", "PG1", 0>>])} :
         Load(e)
  /\ [][\/ QueueTableKey \/ EdgeSlotClick \/ MainKey \/ CopyKey \/ InsKey \/ LoadKey]_vars

(***************************************************************************)
(* The FWD and BACK keys.                                                  *)
(***************************************************************************)
\* #NO_SHIFT_TABLE['B1'] (FWD) and #NO_SHIFT_TABLE['BACK-TAP'] (BACK): the
\* pattern number of the address is stepped to patternId
stepPattern(e, patternId) ==
  The({ IF r.thrown \/ ~r.e.isQueueTable THEN r.e
        ELSE [r.e EXCEPT !.patternLocation = r.e.SELECTOR_CODE] :
        r \in { The({ [x EXCEPT !.e.entered =
                                  @ \/ (e.rec = "enter" /\ ~x.thrown
                                        /\ e.GLOBAL_SSC # "STOP")] :
                      x \in { changePatternId(e, patternId) } }) } })

\* the keys are pressed while the pattern they lead to is one of the patterns
\* followed here
FwdKey ==
  /\ alert = Undef
  /\ ~TRACK_WRITE
  /\ (SELECTOR_CODE[4] + 1) % GroupSize \in PatNums \cup KeyIds
  /\ \E e \in {Eng} :
       \E r \in {stepPattern(e, (e.SELECTOR_CODE[4] + 1) % GroupSize)} : Commit(r)

BackKey ==
  /\ alert = Undef
  /\ ~TRACK_WRITE
  /\ (GroupSize + (SELECTOR_CODE[4] - 1)) % GroupSize \in PatNums \cup KeyIds
  /\ \E e \in {Eng} :
       \E r \in {stepPattern(e, (GroupSize + (e.SELECTOR_CODE[4] - 1)) % GroupSize)} :
         Commit(r)

\* address changes on a stopped machine
SpecAddr ==
  /\ \E t \in TempoValues, mem \in EditPresets, q \in EditQueues :
       \E e \in {setMemory([Constructed(t, FALSE) EXCEPT !.rec = "none"], mem, q)} : Load(e)
  /\ [][\/ ShiftKey \/ QueueTableKey \/ SlotClick \/ FwdKey \/ BackKey \/ MainKey]_vars

\* Start and Stop/Continue with the CLEAR dialog and the queue table in play
SpecStart ==
  /\ InitQueue
  /\ [][
       \/ ShiftKey \/ QueueTableKey \/ SlotClick \/ ClearKey \/ AlertOK \/ AlertCancel
       \/ StartKey \/ StopKey
       ]_vars

\* Stop and Continue with the window edited while stopped or playing
ContPresets == { [i \in MemIndices |-> Pat(0, 3, 0)] }

SpecCont ==
  /\ \E t \in TempoValues, mem \in ContPresets, q \in EditQueues :
       \E e \in {setMemory([Constructed(t, FALSE) EXCEPT !.rec = "none"], mem, q)} : Load(e)
  /\ [][\/ StartKey \/ StopKey \/ ShiftKey \/ LastStepKey \/ MainKey \/ Tick \/ TimerFire]_vars

\* playback in both directions over one queue
SpecRev ==
  /\ InitQueue
  /\ [][Next]_vars

\* presets whose patterns have the three-step window [0, 3) and shuffle 3,
\* all played forward or all played in reverse
OddPresets ==
  { [i \in MemIndices |-> [Pat(0, 3, inv) EXCEPT !.shuffle = 3]] : inv \in {0, 1} }

\* playback of three-step patterns with shuffle, in both directions
SpecOdd ==
  /\ \E t \in TempoValues, mem \in OddPresets, q \in EditQueues :
       \E e \in {setMemory(Constructed(t, FALSE), mem, q)} : Load(e)
  /\ [][StartKey \/ StopKey \/ Tick \/ TimerFire]_vars

\* presets whose two-step patterns play a flammed bass drum on every step,
\* with the least and the greatest flam and shuffle the keys can set
FlamPresets ==
  { [i \in MemIndices |->
       [Pat(0, 2, 0) EXCEPT !.flam = f, !.shuffle = sh,
                            !.notes = [k \in {<<10, 0>>, <<10, 1>>} |-> 1],
                            !.flams = [c \in {10} |-> 1]]] :
    f \in {0, 7}, sh \in {0, 6} }

\* playback of flammed patterns
SpecFlam ==
  /\ \E t \in TempoValues, mem \in FlamPresets, q \in EditQueues :
       \E e \in {setMemory(Constructed(t, FALSE), mem, q)} : Load(e)
  /\ [][NextSwing]_vars

\* #SHIFT_TABLE['TS-PM']: the direction is toggled and written to the record
ShiftPlayModeKey ==
  /\ alert = Undef
  /\ TRACK_WRITE
  /\ \E e \in {[Eng EXCEPT !.invert = IF @ # 0 THEN 0 ELSE 1]} :
       Commit([e EXCEPT
                 !.memory[getPatternMemoryLocation(e.SELECTOR_CODE)].invert = e.invert])

\* playback of the factory patterns (16 steps each) with the direction toggled
MirrorQueues == EditQueues \cup { SubSeq(q, 1, 1) : q \in EditQueues }

SpecMirror ==
  /\ \E t \in TempoValues, q \in MirrorQueues :
       \E e \in {setMemory([Constructed(t, FALSE) EXCEPT !.rec = "none"], FactoryPreset, q)} :
         Load(e)
  /\ [][
       \/ StartKey \/ CycleKey \/ PlayModeKey \/ ShiftKey \/ ShiftPlayModeKey
       \/ Tick \/ TimerFire
       ]_vars

(***************************************************************************)
(* SAVE and LOAD of a preset file, the pattern group keys.                 *)
(***************************************************************************)
PatternGroups == {"PG1", "PG2"}

\* #generateMemory() followed by #loadPatternData(patternData): the records
\* the pattern list names are filled from it, every other record is an empty
\* pattern
loadPatternData(patterns) ==
  [i \in MemIndices |->
     IF i \in DOMAIN patterns THEN patterns[i] ELSE generateEmptyPattern]

\* #collectPreset: the pattern list is Array.from(#collectPatternsForPreset),
\* each record as the object the Map holds is now
collectPreset(e) ==
  The({ [patterns |-> [i \in DOMAIN e1.collectPatternsForPreset |->
                         IF e1.collectPatternsForPreset[i].live
                           THEN e1.memory[i]
                           ELSE e1.collectPatternsForPreset[i].rec],
         queue |-> e1.playbackQueue, cycle |-> e1.CYCLE] :
        e1 \in { checkPatternAndInstSTEP(e) } })

\* #handleSaveOperation with no bank selected: the preset is collected and
\* written to a file.  #collectPreset reads [3] of the last queue entry, so
\* with no entry there it throws after the Map was brought up to date.
handleSaveOperation(e) ==
  IF QAt(e.playbackQueue, Len(e.playbackQueue) - 1) = Undef
    THEN checkPatternAndInstSTEP(e)
    ELSE [checkPatternAndInstSTEP(e) EXCEPT
            !.savedPreset = collectPreset(e), !.snapshotOf = e.memory]

\* EditCommand SAVE -> consumeEditKey('SAVE')
SaveKey ==
  /\ alert = Undef
  /\ ~(isQueueTable /\ ~TRACK_WRITE)
  /\ \E e \in {Eng} : \E r \in {handleSaveOperation(e)} : Commit(r)

\* EditCommandLoad onChange with the file SAVE wrote last
LoadSavedKey ==
  /\ alert = Undef
  /\ ~(isQueueTable /\ ~TRACK_WRITE)
  /\ savedPreset # Undef
  /\ \E e \in {Eng} :
       \E r \in {loadPreset(e, loadPatternData(e.savedPreset.patterns),
                            e.savedPreset.queue, e.savedPreset.cycle)} : Commit(r)

\* #NO_SHIFT_TABLE['PG1'](elementId), which #SHIFT_TABLE uses too: the group
\* of the edited address (and with SHIFT that of the current queue entry) is
\* set, and the caches follow without the direction
selectPatternGroup(e, elementId) ==
  The({ changeGridForNewBASE(e3) :
        e3 \in { updateSHUFFLEandFLAM(e2) :
        e2 \in { updateScaleBase(e1) :
        e1 \in { checkPatternAndInstSTEP(e0) :
        e0 \in { [e EXCEPT !.SELECTOR_CODE[3] = elementId,
                           !.playbackQueue =
                              IF e.TRACK_WRITE
                                THEN QSet(@, e.patternNumber,
                                          [QAt(@, e.patternNumber) EXCEPT ![3] = elementId])
                                ELSE @,
                           \* #updateCOPYLocation(elementId, 2)
                           !.COPY_TO_BUFFER =
                              IF e.COPY_TO
                                THEN { <<c[1], [c[2] EXCEPT ![3] = elementId]>> : c \in @ }
                                ELSE @] } } } } })

PGKey ==
  \E elementId \in PatternGroups :
    /\ alert = Undef
    /\ TRACK_WRITE => QAt(playbackQueue, patternNumber) # Undef
    /\ \E e \in {Eng} : \E r \in {selectPatternGroup(e, elementId)} : Commit(r)

\* the records of a preset file: steps in pattern 0 of one group or of both
\* (with scalar fields that are not the defaults in the first group), or a
\* pattern without steps whose last step was moved
Steps(v) == [generateEmptyPattern EXCEPT !.notes = [k \in {<<10, 0>>} |-> v]]

SnapFiles ==
  { [i \in {0} |-> Steps(1)],
    [i \in {0, GroupSize} |->
       IF i = 0
         THEN [Steps(1) EXCEPT !.scale = 2, !.BASE = 3, !.shuffle = 6, !.flam = 7,
                               !.firstBeat = 1, !.invert = 1]
         ELSE Steps(2)],
    [i \in {1} |-> Pat(0, 2, 0)] }

SnapQueues == { << <<"B1", "T1", g, 0>> >> : g \in PatternGroups }

\* LOAD of one of the files above
LoadFileKey ==
  \E file \in SnapFiles, q \in SnapQueues :
    /\ alert = Undef
    /\ ~(isQueueTable /\ ~TRACK_WRITE)
    /\ \E e \in {Eng} :
         \E r \in {loadPreset(e, loadPatternData(file), q, FALSE)} : Commit(r)

\* presets are loaded, saved and loaded back on a stopped machine
InitSnap ==
  \E t \in TempoValues, file \in SnapFiles, q \in SnapQueues :
    \E e \in {setMemory([Constructed(t, FALSE) EXCEPT !.rec = "none"],
                        loadPatternData(file), q)} : Load(e)

SpecSnap ==
  /\ InitSnap
  /\ [][
       \/ SaveKey \/ LoadSavedKey \/ LoadFileKey \/ PGKey \/ ShiftKey
       ]_vars

\* dataFormatErr: the notice "UNSUPPORTED PRESET FORMAT", closed with OK
dataFormatErr(e) == [e EXCEPT !.alert = <<"NOTICE", Undef, FALSE>>]

\* this.#memory = this.#generateMemory() and what of #setMemory was done when
\* a statement after it throws: the Map keeps the records that were replaced
memoryReplaced(e, mem) ==
  [e EXCEPT !.memory = mem,
            !.collectPatternsForPreset =
               [i \in DOMAIN @ |-> IF @[i].live THEN Kept(e.memory[i]) ELSE @[i]]]

\* A parsed preset file: its pattern list, queue and CYCLE flag, and what is
\* wrong with its form:
\*   "text"         the text does not parse (parse throws or gives null)
\*   "fields"       more than nine fields
\*   "noQueue"      field [1] is missing
\*   "flags"        field [6] is not a boolean
\*   "noTable"      field [3] is missing
\*   "patternShape" the entries of the pattern list are not [index, record]
\* #loadPreset: the format check looks at the presence of [0], [1], [2], the
\* length of [3] and the types of [4]..[7]; reading data[3].length throws
\* when [3] is missing.  What passes is stored and given to #setMemory,
\* which replaces the memory first and throws on a pattern entry without a
\* record, on an empty queue with an empty pattern list (newState[1][0][3])
\* and, the queue emptied, on SELECTOR_CODE[3] of an empty queue.
loadPresetFile(e, data) ==
  CASE data.fault \in {"text", "fields", "noQueue", "flags"} -> dataFormatErr(e)
    [] data.fault = "noTable" -> e
    [] data.fault = "patternShape" -> memoryReplaced(e, loadPatternData(<<>>))
    [] data.fault = "none" /\ data.queue = <<>> /\ DOMAIN data.patterns = {} ->
         memoryReplaced(e, loadPatternData(<<>>))
    [] data.fault = "none" /\ data.queue = <<>> /\ DOMAIN data.patterns # {} ->
         [memoryReplaced(e, loadPatternData(data.patterns)) EXCEPT
            !.playbackQueue = <<>>, !.SELECTOR_CODE = Undef]
    [] OTHER -> loadPreset(e, loadPatternData(data.patterns), data.queue, data.cycle)

\* malformed files: each fault on an otherwise well-formed file, and a file
\* whose queue and pattern list are empty arrays
BadFiles ==
  { [patterns |-> file, queue |-> q, cycle |-> FALSE, fault |-> f] :
      file \in SnapFiles, q \in SnapQueues,
      f \in {"text", "fields", "noQueue", "flags", "noTable", "patternShape"} }
  \cup { [patterns |-> <<>>, queue |-> <<>>, cycle |-> FALSE, fault |-> "none"] }

\* LOAD of a malformed file
LoadBadFileKey ==
  \E data \in BadFiles :
    /\ alert = Undef
    /\ ~(isQueueTable /\ ~TRACK_WRITE)
    /\ \E e \in {Eng} : \E r \in {loadPresetFile(e, data)} : Commit(r)

\* the OK button of a notice
NoticeOK ==
  /\ alert # Undef
  /\ alert[1] = "NOTICE"
  /\ Commit([Eng EXCEPT !.alert = Undef])

SpecLoad ==
  /\ InitSnap
  /\ [][
       \/ LoadBadFileKey \/ NoticeOK \/ LoadFileKey \/ SaveKey \/ LoadSavedKey
       \/ PGKey \/ ShiftKey
       ]_vars

(***************************************************************************)
(* Properties of the one-pass run, of Stop and of the dispatch order.      *)
(***************************************************************************)
Running == GLOBAL_SSC \in {"START", "CONT"}

\* C1: a step dispatched while running with Cycle off, the cursor on the last
\* queue entry and the beat on the terminal edge (BASE-1 forward, firstStep
\* reverse) is the last step its callback dispatches; the engine is then
\* stopped with no callback pending, and no step follows it in that run.
C1_TerminalStop ==
  /\ \A i \in 1 .. Len(dispatched) :
       (dispatched[i].final /\ dispatched[i].ssc # "STOP")
         => /\ i = Len(dispatched)
            /\ GLOBAL_SSC = "STOP"
            /\ stopCause = "terminal"
            /\ timers = <<>>
  /\ ~order.pastFinal

C1_Witness ==
  /\ dispatched # <<>>
  /\ dispatched[Len(dispatched)].final
  /\ dispatched[Len(dispatched)].ssc = "CONT"
  /\ invert = 1
  /\ GLOBAL_SSC = "STOP"

\* C7 (as stated): the target time of every dispatch is at least the target
\* time of the dispatch before it, also across Stop, Start and Continue.
C7_OrderedAcrossRuns == order.ok

\* C7 (amended): within one run, from a Start or Continue command to the next
\* one, the target time of every dispatch is at least that of the dispatch
\* before it.
C7_OrderedWithinRun == order.okRun

C7_Witness ==
  /\ Len(dispatched) >= 2
  /\ dispatched[1].ssc = "CONT"
  /\ shuffleFactor > 0
  /\ timers # <<>>

Count(k, s) == Cardinality({i \in 1 .. Len(log) : log[i] = <<k, s>>})

\* the run's dispatches play the queue entries k .. last, each once and whole,
\* in queue order
PlayedOnceFrom(k) ==
  /\ log # <<>>
  /\ log[1][1] = k
  /\ log[Len(log)][1] = Len(playbackQueue) - 1
  /\ \A i \in 1 .. Len(log) - 1 : log[i + 1][1] \in {log[i][1], log[i][1] + 1}
  /\ \A i, j \in 1 .. Len(log) : i # j => log[i] # log[j]
  /\ \A i \in 1 .. Len(log) :
       LET p == memory[getPatternMemoryLocation(QAt(playbackQueue, log[i][1]))]
       IN Cardinality({j \in 1 .. Len(log) : log[j][1] = log[i][1]})
            = p.BASE - p.firstBeat

AutoStopped ==
  /\ GLOBAL_SSC = "STOP"
  /\ stopCause = "terminal"
  /\ order.byStart
  /\ ~CYCLE

\* C2 (as stated): when a run begun by Start stops automatically, every queue
\* entry has been played exactly once in queue order, wherever the cursor was
\* at Start.
C2_AllEntriesPlayed == AutoStopped => PlayedOnceFrom(0)

\* C2 (amended): when a run begun by Start with the cursor on queue entry k,
\* and not redirected by a click on a queue slot, stops automatically, the
\* entries k .. last have each been played exactly once, in queue order (the
\* entries before k are not played).
C2_EntriesFromCursorPlayed ==
  (AutoStopped /\ order.from \in 0 .. Len(playbackQueue) - 1)
    => PlayedOnceFrom(order.from)

C2_Witness ==
  /\ AutoStopped
  /\ Len(playbackQueue) = 2
  /\ order.from = 1
  /\ Len(log) >= 2

\* a queue of two 16-step patterns in a run begun by Start with Cycle off
\* and recording off
TwoFullPatterns ==
  /\ Len(playbackQueue) = 2
  /\ \A k \in 0 .. 1 :
       LET p == memory[getPatternMemoryLocation(QAt(playbackQueue, k))]
       IN p.firstBeat = 0 /\ p.BASE = DefaultBASE
  /\ order.byStart /\ ~CYCLE /\ ~TRACK_WRITE

\* step 15 of each pattern and step 0 of the first are dispatched at most
\* once; the engine is stopped exactly when step 15 of the second pattern has
\* been dispatched, and by then step 15 and step 0 of the first were
\* dispatched once
OnePassOfTwo ==
  /\ Count(0, 0) <= 1
  /\ Count(0, DefaultBASE - 1) <= 1
  /\ Count(1, DefaultBASE - 1) <= 1
  /\ Count(1, DefaultBASE - 1) = 1 =>
       /\ GLOBAL_SSC = "STOP"
       /\ timers = <<>>
       /\ log[Len(log)] = <<1, DefaultBASE - 1>>
       /\ Count(0, DefaultBASE - 1) = 1
       /\ Count(0, 0) = 1
  /\ (GLOBAL_SSC = "STOP" /\ stopCause = "terminal") => Count(1, DefaultBASE - 1) = 1

\* C3 (as stated): a queue of two patterns with firstStep 0 and BASE 16,
\* started with Start with Cycle off and recording off, dispatches step 15 of
\* each pattern once, is stopped right after step 15 of the second pattern,
\* and dispatches step 0 of the first pattern only once.
C3_StartedAnywhere == TwoFullPatterns => OnePassOfTwo

\* C3 (amended): the same, for a run started with Start while the queue
\* cursor is on the first entry.
C3_TwoPatternsOnePass == (TwoFullPatterns /\ order.from = 0) => OnePassOfTwo

C3_Witness ==
  /\ TwoFullPatterns
  /\ order.from = 0
  /\ GLOBAL_SSC = "STOP"
  /\ stopCause = "terminal"
  /\ Len(log) = 2 * DefaultBASE
  /\ QAt(playbackQueue, 0) # QAt(playbackQueue, 1)

(***************************************************************************)
(* The window of the pattern being played.                                 *)
(***************************************************************************)
\* C4: every step the scheduler dispatches has an index s with
\* firstStep <= s < BASE of the record being played at that moment.
C4_StepInsideWindow ==
  \A i \in 1 .. Len(dispatched) :
    /\ dispatched[i].first <= dispatched[i].step
    /\ dispatched[i].step < dispatched[i].base

\* C5: every pattern record in Pattern Memory satisfies
\* 0 <= firstStep < BASE <= 16.
C5_WindowInvariant ==
  \A i \in MemIndices :
    /\ 0 <= memory[i].firstBeat
    /\ memory[i].firstBeat < memory[i].BASE
    /\ memory[i].BASE <= 16

(***************************************************************************)
(* The queue cursor at a pattern wrap.                                     *)
(***************************************************************************)
\* the cursor after the i-th wrap of the last handler
CursorAfter(i) ==
  IF i < Len(wrapped) THEN wrapped[i + 1].from ELSE patternNumber

\* C6 as stated: at every wrap at the terminal edge the cursor becomes
\* (cursor+1) mod queue-length if edit-lock is not held and stays unchanged
\* if it is held.
C6_AdvanceOrPinned ==
  \A i \in 1 .. Len(wrapped) :
    IF wrapped[i].lock
      THEN CursorAfter(i) = wrapped[i].from
      ELSE /\ wrapped[i].len > 0
           /\ CursorAfter(i) = (wrapped[i].from + 1) % wrapped[i].len

\* C6: at every wrap at the terminal edge, a cursor that addresses an
\* existing queue entry becomes (cursor+1) mod queue-length if edit-lock is
\* not held and stays unchanged if it is held; a cursor that addresses no
\* queue entry becomes 0, edit-lock or not.
C6_AdvancePinnedOrHead ==
  \A i \in 1 .. Len(wrapped) :
    IF ~wrapped[i].had THEN CursorAfter(i) = 0
    ELSE IF wrapped[i].lock
      THEN CursorAfter(i) = wrapped[i].from
      ELSE CursorAfter(i) = (wrapped[i].from + 1) % wrapped[i].len

\* a wrap with edit-lock held has left the cursor on its entry, in a queue of
\* two entries
C6_Witness ==
  /\ Len(wrapped) >= 1
  /\ wrapped[1].lock /\ wrapped[1].had /\ wrapped[1].len = 2
  /\ wrapped[1].from = 0
  /\ patternNumber = 0
  /\ Running

(***************************************************************************)
(* The scheduling loop under queue edits.                                  *)
(***************************************************************************)
\* C9: while running, a scheduler callback is pending after every handler
\* and no callback has failed; a run that ended by itself ended with the
\* terminal step of a one-pass run (Cycle off).
C9_LoopNeverHalts ==
  /\ Running => (timers # <<>> /\ timerID # 0)
  /\ ~faulted
  /\ stopCause \in {"none", "key", "terminal"}
  /\ (GLOBAL_SSC = "STOP" /\ stopCause = "terminal" /\ dispatched # <<>>)
       => dispatched[Len(dispatched)].final

\* C10: at a wrap with the cursor on no existing queue entry the cursor
\* becomes 0 and the first queue entry is the one played next (the callback
\* raises an error exactly when that entry is missing).
C10_ResetToHead ==
  \A i \in 1 .. Len(wrapped) :
    ~wrapped[i].had =>
       /\ CursorAfter(i) = 0
       /\ wrapped[i].head # Undef
       /\ wrapped[i].sel = wrapped[i].head

(***************************************************************************)
(* The playback queue under its edit operations.                           *)
(***************************************************************************)
\* C11: the queue always contains at least one entry, and a delete requested
\* while exactly one entry remains leaves the queue unchanged.
C11_QueueNeverEmpty ==
  /\ [](Len(playbackQueue) >= 1)
  /\ [][(DelKey /\ Len(playbackQueue) = 1) => playbackQueue' = playbackQueue]_vars

\* C12: the queue never holds more than 120 entries after any sequence of
\* appends, inserts and preset loads, and an append attempted at length 120
\* leaves the queue unchanged.
C12_AtMostCapacity ==
  /\ [](Len(playbackQueue) <= QueueCapacity)
  /\ [][(MainKey /\ Len(playbackQueue) = QueueCapacity)
          => playbackQueue' = playbackQueue]_vars

\* the queue with the buffer inserted behind the cursor, cut at the capacity
InsertedAfterCursor ==
  LET ins == SubSeq(playbackQueue, 1, patternNumber + 1) \o COPY_BUFFER
               \o SubSeq(playbackQueue, patternNumber + 2, Len(playbackQueue))
  IN  SubSeq(ins, 1, IF Len(ins) <= QueueCapacity THEN Len(ins) ELSE QueueCapacity)

\* C13: an insert puts the copied addresses immediately behind the cursor and
\* keeps every entry that was behind the cursor, in its order, behind the
\* inserted block; only entries that would fall beyond index 119 are dropped.
C13_InsertShifts ==
  [][(InsKey /\ COPY_BUFFER # <<>>
        /\ patternNumber >= 0 /\ patternNumber < Len(playbackQueue)
        /\ Len(playbackQueue) <= QueueCapacity)
       => playbackQueue' = InsertedAfterCursor]_vars

\* C14: DEL without SHIFT leaves the entries at indices 0..cursor unchanged
\* and removes all later entries: the resulting length is cursor+1 and at
\* least 1, for every cursor value with which it can be invoked.
C14_TruncateKeepsPrefix ==
  [][(DelKey /\ ~TRACK_WRITE)
       => /\ Len(playbackQueue') = patternNumber + 1
          /\ Len(playbackQueue') >= 1
          /\ \A i \in 0 .. patternNumber :
               QAt(playbackQueue', i) = QAt(playbackQueue, i)]_vars

\* C15: no queue entry shares storage with the currently-edited address:
\* a change of the currently-edited address (bank, track, pattern group or
\* pattern number) never changes the contents of any queue entry.
C15_QueueEntriesIndependent ==
  [][(SELECTOR_CODE' # SELECTOR_CODE) => playbackQueue' = playbackQueue]_vars

\* C16: the first step dispatched after a Start command is the current
\* pattern's firstStep when playing forward and BASE-1 when playing in
\* reverse.
C16_FirstStepAfterStart ==
  [][StartKey =>
       /\ dispatched' # <<>>
       /\ dispatched'[1].step = IF invert = 0 THEN CurrentPattern(Eng).firstBeat
                                ELSE CurrentPattern(Eng).BASE - 1]_vars

\* the retained beat position lies inside the current pattern's window
RetainedInside ==
  /\ beatRunnerCounter >= CurrentPattern(Eng).firstBeat
  /\ beatRunnerCounter < CurrentPattern(Eng).BASE

\* the step the claim expects first after a Continue that needs no wrap
StepAfterContinue ==
  IF RetainedInside
    THEN IF invert = 0 THEN beatRunnerCounter + 1 ELSE beatRunnerCounter - 1
    ELSE IF invert = 0 THEN CurrentPattern(Eng).firstBeat
                       ELSE CurrentPattern(Eng).BASE - 1

\* C17: Stop retains the beat position; after a Continue the first step
\* dispatched is the successor, in the active direction, of the retained
\* position when that lies inside the current pattern's [firstStep, BASE)
\* window, and the window's entry edge when it lies outside (at the terminal
\* edge the successor is the entry edge of the pattern the wrap selects).
C17_ContinueFromRetained ==
  /\ [][(StopKey /\ GLOBAL_SSC # "STOP") => beatRunnerCounter' = beatRunnerCounter]_vars
  /\ [][(StopKey /\ GLOBAL_SSC = "STOP" /\ ~nntZero) =>
          /\ dispatched' # <<>>
          /\ IF RetainedInside
                /\ beatRunnerCounter = (IF invert = 0 THEN CurrentPattern(Eng).BASE - 1
                                        ELSE CurrentPattern(Eng).firstBeat)
               THEN dispatched'[1].step \in {dispatched'[1].first,
                                             dispatched'[1].base - 1}
               ELSE dispatched'[1].step = StepAfterContinue]_vars

\* what a timer callback's i-th dispatch follows: the step dispatched before
\* it (the beat position, for the first one) and the direction after it
Before(i) ==
  IF i = 1
    THEN [step |-> beatRunnerCounter, inv |-> invert, q |-> patternNumber,
          sel |-> SELECTOR_CODE, first |-> CurrentPattern(Eng).firstBeat,
          base |-> CurrentPattern(Eng).BASE]
    ELSE [step |-> dispatched'[i - 1].step, inv |-> dispatched'[i - 1].inv,
          q |-> dispatched'[i - 1].q, sel |-> dispatched'[i - 1].sel,
          first |-> dispatched'[i - 1].first, base |-> dispatched'[i - 1].base]

\* dispatch d follows b inside b's pattern, one step down
StepsDown(b, d) ==
  d.step = b.step - 1 /\ d.q = b.q /\ d.sel = b.sel /\ d.inv = b.inv

StepsUp(b, d) ==
  d.step = b.step + 1 /\ d.q = b.q /\ d.sel = b.sel /\ d.inv = b.inv

\* dispatch d follows b by a wrap: the queue-advance rule was applied and d
\* is the entry edge of the pattern it selected
WrapsFrom(b, d) ==
  /\ wrapped' # <<>>
  /\ d.q = IF EditLock(Eng) THEN b.q ELSE (b.q + 1) % Len(playbackQueue)
  /\ d.sel = QAt(playbackQueue, d.q)
  /\ d.step = IF d.inv = 0 THEN d.first ELSE d.base - 1

\* the i-th dispatch of a handler is the successor of what it follows
Follows(i) ==
  IF Before(i).inv # 0
    THEN IF Before(i).step = Before(i).first
           THEN WrapsFrom(Before(i), dispatched'[i])
           ELSE StepsDown(Before(i), dispatched'[i])
    ELSE IF Before(i).step = Before(i).base - 1
           THEN WrapsFrom(Before(i), dispatched'[i])
           ELSE StepsUp(Before(i), dispatched'[i])

\* C18: in reverse mode the steps of a pattern are dispatched in the order
\* BASE-1, BASE-2, ..., firstStep, and the wrap with the queue-advance rule
\* comes after step firstStep; in forward mode it comes after step BASE-1.
C18_ReversePass ==
  [][/\ TimerFire => \A i \in 1 .. Len(dispatched') : Follows(i)
     /\ StartKey =>
          /\ dispatched' # <<>>
          /\ dispatched'[1].step = IF invert # 0 THEN CurrentPattern(Eng).BASE - 1
                                   ELSE CurrentPattern(Eng).firstBeat
          /\ \A i \in 2 .. Len(dispatched') : Follows(i)]_vars

\* a timer callback has dispatched the entry edge BASE-1 of a reverse pattern
\* after a wrap
C18_Witness ==
  /\ GLOBAL_SSC # "STOP" /\ wrapped # <<>> /\ dispatched # <<>>
  /\ wrapped[1].ssc # "STOP"
  /\ \E i \in 1 .. Len(dispatched) :
       /\ dispatched[i].inv # 0
       /\ dispatched[i].step = dispatched[i].base - 1
       /\ dispatched[i].first < dispatched[i].step

\* the direction stored in the record dispatch d played
RecordInvert(d) == memory'[getPatternMemoryLocation(d.sel)].invert

\* C19 as stated: on a pattern with firstStep 0 and BASE 16, the steps
\* dispatched after the direction was toggled to reverse form the mirrored
\* sequence (after step k the pattern plays step k-1, after step 0 step 15, as
\* position p of a reverse pass plays step 15-p), and no step outside 0..15 is
\* dispatched.
C19_MirroredSequence ==
  [][TimerFire =>
       \A i \in 1 .. Len(dispatched') :
         /\ dispatched'[i].step \in 0 .. (DefaultBASE - 1)
         /\ (Before(i).inv # 0 /\ Before(i).sel = dispatched'[i].sel)
              => dispatched'[i].step = JsRem(DefaultBASE + Before(i).step - 1,
                                             DefaultBASE)]_vars

\* C19 as the code has it: the mirrored sequence is dispatched down to step 0;
\* the wrap after step 0 selects a pattern by the queue-advance rule and
\* plays it in the direction its record stores, from its entry edge.
C19_MirroredUntilWrap ==
  [][TimerFire =>
       \A i \in 1 .. Len(dispatched') :
         /\ dispatched'[i].step \in 0 .. (DefaultBASE - 1)
         /\ Before(i).inv # 0 =>
              IF Before(i).step # 0
                THEN StepsDown(Before(i), dispatched'[i])
                ELSE /\ WrapsFrom(Before(i), dispatched'[i])
                     /\ dispatched'[i].inv = RecordInvert(dispatched'[i])]_vars

\* a toggle without SHIFT has played a forward pattern in reverse down to
\* step 0
C19_Witness ==
  /\ GLOBAL_SSC # "STOP" /\ dispatched # <<>>
  /\ \E i \in 1 .. Len(dispatched) :
       /\ dispatched[i].inv # 0 /\ dispatched[i].step = 0
       /\ memory[getPatternMemoryLocation(dispatched[i].sel)].invert = 0

\* C20: with shuffle the intervals that follow two consecutive dispatched
\* steps add up to twice the nominal interval, for every window and in both
\* directions, also when the two steps straddle a wrap.  When a handler
\* has dispatched two steps and playback goes on, the target of the next step
\* (nextNoteTime) lies the two intervals after the target of the first.
C20_PairSumIsTwoBeats ==
  (GLOBAL_SSC # "STOP" /\ ~faulted /\ Len(dispatched) >= 2) =>
    nextNoteTime - dispatched[Len(dispatched) - 1].at
      = 2 * NominalBeat(tempo, grid)

\* the target time of the step dispatched before dispatch i of this handler
PreviousTarget(i) ==
  IF i > 1 THEN dispatched'[i - 1].at ELSE order.last

\* C21: the pre-hit of every flammed step the scheduler dispatches has a
\* target time strictly earlier than the step's own and strictly later than
\* the target time of the step dispatched before it.
C21_PreHitBetweenSteps ==
  [][\A i \in 1 .. Len(dispatched') :
       dispatched'[i].flammed =>
         /\ dispatched'[i].flam < dispatched'[i].at
         /\ (i > 1 \/ order.has) => dispatched'[i].flam > PreviousTarget(i)]_vars

(***************************************************************************)
(* Properties of preset files.                                             *)
(***************************************************************************)
\* C22: loading the file SAVE wrote gives every record that held step data
\* when the file was written (in whatever pattern group, whichever pattern
\* was selected then) the step arrays and scalar fields it had, and makes
\* every record the file does not name an empty pattern.
C22_SnapshotRestores ==
  [][LoadSavedKey =>
       /\ \A i \in MemIndices :
            holdsSteps(snapshotOf[i]) => memory'[i] = snapshotOf[i]
       /\ \A i \in MemIndices \ DOMAIN savedPreset.patterns :
            memory'[i] = generateEmptyPattern]_vars

\* C23: the file SAVE writes names a record only if that record, as memory
\* holds it when the file is written, has step data or a first or last step
\* that is not the default, and what the file holds of it is what the record
\* holds then.
C23_SnapshotIsOfMemory ==
  [][(SaveKey /\ QAt(playbackQueue, Len(playbackQueue) - 1) # Undef) =>
       \A i \in DOMAIN savedPreset'.patterns :
         /\ holdsSteps(memory[i]) \/ firstLastBeatPresent(memory[i])
         /\ savedPreset'.patterns[i] = memory[i]]_vars

\* C24: a malformed preset file is rejected with a notice, and memory, the
\* queue and the parameter table (the tempo) are as they were before.
C24_MalformedRejected ==
  [][LoadBadFileKey =>
       /\ alert' # Undef
       /\ memory' = memory
       /\ playbackQueue' = playbackQueue
       /\ tempo' = tempo]_vars

\* the caches of the scheduler hold the fields of the record the first queue
\* entry addresses
CachesOfFirstEntry ==
  LET r == memory[getPatternMemoryLocation(playbackQueue[1])]
  IN /\ GLOBAL_SCALE = r.scale
     /\ BASE = r.BASE
     /\ firstBeat = r.firstBeat
     /\ shuffleFactor = r.shuffle
     /\ flamFactor = r.flam
     /\ invert = r.invert
     /\ SELECTOR_CODE = playbackQueue[1]

\* C25: after a load that was accepted (of a file SAVE wrote or of any other
\* well-formed file) the cached scale, BASE, firstStep, shuffle, flam and
\* invert are those of the record the first queue entry addresses, which is
\* the current pattern.
C25_CachesFollowRestore ==
  [][(LoadSavedKey \/ LoadFileKey) => CachesOfFirstEntry']_vars

\* a preset was loaded over another one (the Map keeps a record of the memory
\* that was replaced) and its first pattern has no default scalar field
C25_Witness ==
  /\ \E i \in DOMAIN collectPatternsForPreset : ~collectPatternsForPreset[i].live
  /\ CachesOfFirstEntry
  /\ GLOBAL_SCALE = 2 /\ BASE = 3 /\ firstBeat = 1
  /\ shuffleFactor = 6 /\ flamFactor = 7 /\ invert = 1


(***************************************************************************)
(* Writing steps with the main keys.                                       *)
(***************************************************************************)
\* presets whose patterns have the window [0, 13), with the HHC key inside it and the
\* HHO key outside, and hold steps and a flam flag
LockPresets ==
  { [i \in MemIndices |->
       [Pat(0, 13, 0) EXCEPT !.notes = (<<10, 0>> :> 1) @@ (<<3, 0>> :> 1) @@ (<<3, 1>> :> 2)
                                       @@ (<<3, 3>> :> 6) @@ (<<3, 12>> :> 3),
                             !.flams = [c \in {10} |-> 1]]] }

\* the machine stopped: SHIFT, the write modes and the main keys
SpecStep ==
  /\ \E t \in TempoValues, mem \in LockPresets, q \in EditQueues :
       \E e \in {setMemory([Constructed(t, FALSE) EXCEPT !.rec = "write"], mem, q)} :
         Load(e)
  /\ [][
       \/ ShiftKey \/ InstSelectKey \/ TotalAccentKey \/ StepTapKey \/ StepKey
       ]_vars

\* Mk.handleClick while SHIFT is off
LockedMainKey == ~TRACK_WRITE /\ MainKey

\* the machine stopped: SHIFT, the queue table, INST SELECT, LAST STEP and the
\* write modes; the HHC and HHO keys are pressed at any time, the other main
\* keys while recording is disabled
SpecLock ==
  /\ \E t \in TempoValues, mem \in LockPresets, q \in EditQueues :
       \E e \in {setMemory([Constructed(t, FALSE) EXCEPT !.rec = "none"], mem, q)} :
         Load(e)
  /\ [][
       \/ ShiftKey \/ QueueTableKey \/ InstSelectKey \/ StepTapKey
       \/ LastStepKey \/ StepKey \/ LockedMainKey
       ]_vars

\* the machine stopped, with some instrument selected: SHIFT, INST SELECT,
\* the queue table and its slots, CLEAR and its dialog
SpecClear ==
  /\ \E t \in TempoValues, mem \in LockPresets, q \in EditQueues,
        inst \in {"BD", "HHC", "HHO"} :
       \E e \in {setMemory([Constructed(t, FALSE) EXCEPT
                              !.rec = "none", !.SELECTED_INST = inst,
                              !.lastSELECTED_INST = inst], mem, q)} :
         Load(e)
  /\ [][
       \/ ShiftKey \/ InstSelectKey \/ QueueTableKey \/ SlotClick
       \/ ClearKey \/ AlertOK \/ AlertCancel
       ]_vars

\* #copyPattern: the buffer takes the values of the eleven step arrays and of
\* the scalar fields, and a copy (slice) of the flam array
copyPattern(e) ==
  [e EXCEPT !.COPY_BUFFER = [kind |-> "pattern", pattern |-> CurrentPattern(e)],
            !.shares = newFlams(@, -1)]

\* a paste that stores the flam array of the buffer itself in the record
pastePatternByReference(e, l) ==
  IF e.COPY_BUFFER.kind # "pattern" THEN e
  ELSE [e EXCEPT !.memory[l] = e.COPY_BUFFER.pattern,
                 !.shares = { b \in newFlams(@, l) : -1 \notin b }
                            \cup { UNION { b \in newFlams(@, l) : -1 \in b }
                                   \cup {-1, l} }]

\* #pastePattern: the steps of the buffer are written into the step arrays of
\* the record at memory index l, the scalar fields are assigned, and slot [15]
\* takes a copy (slice) of the flam array of the buffer; it returns when the
\* buffer does not hold a pattern
pastePattern(e, l) ==
  IF e.COPY_BUFFER.kind # "pattern" THEN e
  ELSE [e EXCEPT !.memory[l] = e.COPY_BUFFER.pattern,
                 !.shares = newFlams(@, l)]

\* #pasteInstrument: the 16 steps of the buffer are written into the channel
\* of the instrument selected now and its flam flag into the flam array, in
\* place; it returns when the buffer does not hold an instrument
pasteInstrument(e, l) ==
  IF e.COPY_BUFFER.kind # "instrument" THEN e
  ELSE LET c == I(e.SELECTED_INST) IN
    writeFlams(
      [e EXCEPT !.memory[l].notes =
                   [k \in { x \in DOMAIN @ : x[1] # c }
                          \cup { <<c, i>> : i \in { j \in 0 .. (GroupSize - 1) :
                                   e.COPY_BUFFER.steps[j] # 0 } } |->
                      IF k[1] = c THEN e.COPY_BUFFER.steps[k[2]] ELSE @[k]]],
      l, Put(e.memory[l].flams, c, e.COPY_BUFFER.flammedINST))

\* the while loops of #insertPatterns over the picked patterns (the records
\* are taken by ascending memory index: the pastes into different records
\* do not depend on their order)
RECURSIVE insertEach(_, _)
insertEach(e, locs) ==
  IF locs = {} THEN e
  ELSE LET l == CHOOSE x \in locs : \A y \in locs : x <= y IN
    insertEach(IF e.GLCV = "INST SELECT" THEN pasteInstrument(e, l)
               ELSE pastePattern(e, l), locs \ {l})

\* EditCommand onClick('COPY') -> consumeEditKey -> #handleCopyOperation, with
\* SHIFT and no bank table: the copy mode is left, or entered with a copy of
\* the selected instrument (#copyInstrument, under INST SELECT) or of the
\* whole pattern (#copyPattern) in the buffer
CopyNotesKey ==
  /\ alert = Undef
  /\ TRACK_WRITE /\ ~isBankTable
  /\ \E e \in {Eng}, p \in {CurrentPattern(Eng)}, c \in {I(SELECTED_INST)} :
       Commit(IF e.COPY_TO
                THEN [e EXCEPT !.COPY_TO = FALSE, !.COPY_TO_BUFFER = {}]
              ELSE IF e.GLCV = "INST SELECT"
                THEN [e EXCEPT !.COPY_TO = TRUE,
                               !.COPY_BUFFER =
                                  [kind |-> "instrument",
                                   steps |-> [i \in 0 .. (GroupSize - 1) |->
                                                At(p.notes, <<c, i>>)],
                                   flammedINST |-> At(p.flams, c)],
                               !.shares = newFlams(@, -1)]
                ELSE copyPattern([e EXCEPT !.COPY_TO = TRUE]))

\* EditCommand onClick('INS/UNDO') -> consumeEditKey -> #handleInsertOperation
\* -> #insertPatterns, with SHIFT and no bank table: the buffer is pasted into
\* every picked pattern, by #pasteInstrument into the channel of the
\* instrument selected now or by #pastePattern; each returns when the buffer
\* is not of its kind
InsNotesKey ==
  /\ alert = Undef
  /\ TRACK_WRITE /\ ~isBankTable
  /\ COPY_TO
  /\ \E e \in {Eng},
        locs \in {{getPatternMemoryLocation(x[2]) : x \in COPY_TO_BUFFER}} :
       \E e1 \in {insertEach([e EXCEPT !.COPY_TO = FALSE,
                                       !.COPY_TO_BUFFER = {}], locs)} :
         Commit(IF locs = {} THEN e1
                ELSE The({ changeGridForNewBASE(e4) :
                           e4 \in { updateSHUFFLEandFLAM(e3) :
                           e3 \in { updateScaleBase(e2) :
                           e2 \in { checkPatternAndInstSTEP(e1) } } } }))

\* Mk.handleClick: a main key is pressed and selects its instrument
InstKey ==
  \E k \in KeyIds \cup {12, 13}, a \in BOOLEAN :
    /\ alert = Undef
    /\ MkBranch(Eng, a) = "instrument"
    /\ \E e \in {Eng} : \E r \in {consumeMk(e, k, a)} : Commit(r)

\* the machine stopped: SHIFT, INST SELECT, the main keys that select an
\* instrument or pick a pattern, COPY and INS
SpecCopy ==
  /\ \E t \in TempoValues, mem \in LockPresets, q \in EditQueues :
       \E e \in {setMemory([Constructed(t, FALSE) EXCEPT !.rec = "none"], mem, q)} :
         Load(e)
  /\ [][
       \/ ShiftKey \/ InstSelectKey \/ InstKey \/ MainKey \/ CopyNotesKey \/ InsNotesKey
       ]_vars

C27_Voice(v) == IF v = 0 THEN {} ELSE {HatName(v)}

\* C27: on the shared hi-hat channel a closed hat written over an open one, or
\* an open hat over a closed one, leaves the step with the written voice or
\* silent, and the step dispatches at most one of the two hi-hat voices
C27_HatWriteLeavesOneVoice ==
  [][memory' # memory =>
     \A i \in MemIndices, s \in 0 .. (GroupSize - 1) :
       \E v \in {At(memory[i].notes, <<3, s>>)}, w \in {At(memory'[i].notes, <<3, s>>)} :
         /\ Cardinality(C27_Voice(w)) <= 1
         /\ w # v =>
              /\ SELECTED_INST = "HHC" => C27_Voice(w) \subseteq {"C"}
              /\ SELECTED_INST = "HHO" => C27_Voice(w) \subseteq {"O"}]_vars

\* the HHC key has written a closed hat over an open one on the hi-hat channel
C27_Witness ==
  /\ overwritten = <<3, 3, 1>>
  /\ SELECTED_INST = "HHC"
  /\ At(CurrentPattern(Eng).notes, <<3, 12>>) = 1

(***************************************************************************)
(* Properties of CLEAR.                                                    *)
(***************************************************************************)
\* C29: the confirmed clearPattern makes the record at its address a default
\* empty pattern (every step and flam flag zero, scale, BASE, shuffle, flam,
\* first step and invert at their defaults) and leaves every other record as
\* it was
C29_ClearPatternFrame ==
  [][(alert # Undef /\ AlertOK) =>
       (alert[1] = "PATTERN" =>
          /\ memory'[getPatternMemoryLocation(alert[2])] = generateEmptyPattern
          /\ \A i \in MemIndices \ {getPatternMemoryLocation(alert[2])} :
               memory'[i] = memory[i])]_vars

\* the first pattern, which held steps, has been cleared and the second one
\* holds its steps, its flam flag and its window
C29_Witness ==
  /\ alert = Undef
  /\ memory[0] = generateEmptyPattern
  /\ At(memory[1].notes, <<10, 0>>) = 1
  /\ At(memory[1].flams, 10) = 1
  /\ memory[1].BASE = 13

\* C30: the confirmed clearInstrument zeroes, for the closed hi-hat, exactly
\* the steps of the hi-hat channel that hold 1 or 2 and, for the open hi-hat,
\* exactly those that hold 3 or 6; the other channels of the pattern, its flam
\* flags and scalar fields and every other pattern stay as they were
C30_ClearInstrumentFrame ==
  [][(alert # Undef /\ AlertOK) =>
       (alert[1] = "INSTRUMENT" =>
          \E loc \in {getPatternMemoryLocation(alert[2])} :
            /\ \A i \in MemIndices \ {loc} : memory'[i] = memory[i]
            /\ [memory'[loc] EXCEPT !.notes = <<>>] = [memory[loc] EXCEPT !.notes = <<>>]
            /\ \A c \in 0 .. 10, s \in 0 .. (GroupSize - 1) :
                 \E v \in {At(memory[loc].notes, <<c, s>>)} :
                   At(memory'[loc].notes, <<c, s>>) =
                     IF \/ c # I(alert[4])
                        \/ alert[4] = "HHC" /\ v \in {3, 6}
                        \/ alert[4] = "HHO" /\ v \in {1, 2}
                       THEN v ELSE 0)]_vars

\* the closed hi-hat of a pattern has been cleared: its open steps are left
C30_Witness ==
  /\ alert = Undef
  /\ SELECTED_INST = "HHC"
  /\ \E i \in MemIndices :
       /\ At(memory[i].notes, <<3, 0>>) = 0 /\ At(memory[i].notes, <<3, 1>>) = 0
       /\ At(memory[i].notes, <<3, 3>>) = 6 /\ At(memory[i].notes, <<3, 12>>) = 3
       /\ At(memory[i].notes, <<10, 0>>) = 1

(***************************************************************************)
(* Properties of the step values.                                          *)
(***************************************************************************)
\* C28: after any sequence of edits (step and tap writes, clears, copy and
\* paste of instruments and patterns) every step of a channel other than the
\* hi-hats' holds 0, 1 or 2 and every step of the hi-hat channel holds 0, 1,
\* 2, 3 or 6
C28_StepValues ==
  \A i \in MemIndices :
    \A k \in DOMAIN memory[i].notes :
      memory[i].notes[k] \in (IF k[1] = 3 THEN {0, 1, 2, 3, 6} ELSE {0, 1, 2})

(***************************************************************************)
(* Copy and paste of whole patterns.                                       *)
(***************************************************************************)
\* the first pattern holds steps, a flam flag and a short window, the others
\* are empty
PastePresets ==
  { [i \in MemIndices |->
       IF i = 0
         THEN [Pat(0, 13, 0) EXCEPT !.notes = (<<10, 0>> :> 1) @@ (<<3, 3>> :> 6),
                                    !.flams = [c \in {10} |-> 1], !.shuffle = 3]
         ELSE generateEmptyPattern] }

\* the machine stopped: SHIFT, INST SELECT, the main keys that select or pick
\* a pattern, COPY, INS and the clear of a pattern or an instrument
SpecPaste ==
  /\ \E t \in TempoValues, mem \in PastePresets, q \in EditQueues :
       \E e \in {setMemory([Constructed(t, FALSE) EXCEPT !.rec = "none"], mem, q)} :
         Load(e)
  /\ [][
       \/ ShiftKey \/ InstSelectKey \/ MainKey \/ CopyNotesKey \/ InsNotesKey
       \/ ClearKey \/ AlertOK \/ AlertCancel
       ]_vars

\* C31: outside INST SELECT (#instSelect is set exactly while the display
\* shows it) a copy puts the values of the current pattern record in the buffer; a
\* paste gives every picked record the values of the buffer and changes no
\* other record and not the buffer; and every other command changes at most
\* the one record it addresses (the current one, or the one a confirmation
\* dialog captured) and leaves the buffer alone, so that no later edit of the
\* source, of the buffer or of another paste target changes a destination
C31_PasteIsDeepCopy ==
  [][/\ (~COPY_TO /\ COPY_TO' /\ ~instSelect /\ CopyNotesKey) =>
          /\ COPY_BUFFER'.pattern = memory[getPatternMemoryLocation(SELECTOR_CODE)]
          /\ memory' = memory
     /\ (COPY_TO /\ ~COPY_TO' /\ TRACK_WRITE' /\ ~instSelect /\ ~instSelect'
           /\ InsNotesKey) =>
          /\ COPY_BUFFER' = COPY_BUFFER
          /\ \A i \in MemIndices :
               memory'[i] = IF \E x \in COPY_TO_BUFFER : getPatternMemoryLocation(x[2]) = i
                              THEN COPY_BUFFER.pattern ELSE memory[i]
     /\ (COPY_TO' \/ ~COPY_TO) =>
          /\ \A i \in MemIndices :
               memory'[i] # memory[i] =>
                 i = getPatternMemoryLocation(IF alert # Undef THEN alert[2]
                                              ELSE SELECTOR_CODE)
          /\ COPY_BUFFER' # COPY_BUFFER => (COPY_TO' /\ ~COPY_TO)]_vars

\* the first pattern was copied and pasted into the first and the second
\* pattern and then cleared: the second pattern and the buffer still hold
\* its steps, flam flags and fields
C31_Witness ==
  /\ alert = Undef /\ ~COPY_TO
  /\ memory[0] = generateEmptyPattern
  /\ COPY_BUFFER = [kind |-> "pattern", pattern |-> memory[1]]
  /\ At(memory[1].flams, 10) = 1 /\ At(memory[1].notes, <<3, 3>>) = 6
  /\ memory[1].BASE = 13 /\ memory[1].shuffle = 3

(***************************************************************************)
(* Mute and solo.                                                          *)
(***************************************************************************)
\* x & 1<<bit for a bitfield x >= 0
BitAnd(x, bit) == ((x \div (2 ^ bit)) % 2) * (2 ^ bit)

\* setMuteBit / setSoloBit: the bit is set when it is clear (|=) and flipped
\* when it is set (^=)
setBit(x, bit) ==
  IF BitAnd(x, bit) = 0 THEN x + 2 ^ bit ELSE x - 2 ^ bit

\* an audibility test that forgets the mute bit while a solo is on
getMuteSoloOfSoloOnly(e, instrument_bit) ==
  IF e.soloBits > 0
    THEN (IF BitAnd(e.soloBits, instrument_bit) > 0 THEN 1 ELSE 0)
    ELSE (IF BitAnd(e.muteBits, instrument_bit) = 0 THEN 1 ELSE 0)

\* #getMuteSolo: with a solo on, the mute bit is subtracted from the solo bit;
\* without, the result is !(muteBits & bit), which the callers multiply with
\* the step value (true counts 1, false 0)
getMuteSolo(e, instrument_bit) ==
  IF e.soloBits > 0
    THEN (IF BitAnd(e.soloBits, instrument_bit)
              - BitAnd(e.muteBits, instrument_bit) > 0 THEN 1 ELSE 0)
    ELSE (IF BitAnd(e.muteBits, instrument_bit) = 0 THEN 1 ELSE 0)

\* the instrument bits of the mute/solo strip (keys I0M..I7M, I0S..I7S)
InstrumentBits == 0 .. 7

\* MuteSoloKey.handleClick of a mute key
MuteKey ==
  \E bit \in InstrumentBits :
    \E e \in {Eng} : Commit([e EXCEPT !.muteBits = setBit(@, bit)])

\* MuteSoloKey.handleClick of a solo key
SoloKey ==
  \E bit \in InstrumentBits :
    \E e \in {Eng} : Commit([e EXCEPT !.soloBits = setBit(@, bit)])

\* the machine stopped: the sixteen keys of the mute/solo strip
SpecMute ==
  /\ \E t \in TempoValues :
       \E e \in {[Constructed(t, FALSE) EXCEPT !.rec = "none"]} : Load(e)
  /\ [][MuteKey \/ SoloKey]_vars

\* C32: for every mute and solo bitfield and every instrument bit b, the
\* instrument is let through (#getMuteSolo is 1) iff no solo is on and mute bit
\* b is clear, or a solo is on, solo bit b is set and mute bit b is clear
C32_Audible ==
  \A b \in InstrumentBits :
    getMuteSolo(Eng, b) = 1 <=>
      \/ soloBits = 0 /\ BitAnd(muteBits, b) = 0
      \/ soloBits # 0 /\ BitAnd(soloBits, b) # 0 /\ BitAnd(muteBits, b) = 0

\* bit 7 is soloed and muted (silent), bit 6 soloed only (audible), bit 0
\* neither (silent)
C32_Witness ==
  /\ soloBits = 192 /\ muteBits = 128
  /\ getMuteSolo(Eng, 7) = 0 /\ getMuteSolo(Eng, 6) = 1 /\ getMuteSolo(Eng, 0) = 0

(***************************************************************************)
(* The whole address space.                                                *)
(***************************************************************************)
MemorySize == 384
Banks == {"B1", "B2"}
Tracks == {"T1", "T2", "T3", "T4"}
Groups == {"PG1", "PG2", "PG3"}
AllAddresses ==
  { <<b, t, g, n>> : b \in Banks, t \in Tracks, g \in Groups,
                     n \in 0 .. (GroupSize - 1) }

\* #generateMemory
generateMemory == [i \in 0 .. (MemorySize - 1) |-> generateEmptyPattern]

\* #NO_SHIFT_TABLE['T1'](elementId) without SHIFT: the track of the edited
\* address is set and the caches follow
selectTrack(e, elementId) ==
  The({ changeGridForNewBASE(e3) :
        e3 \in { updateSHUFFLEandFLAM(e2) :
        e2 \in { updateScaleBase(e1) :
        e1 \in { checkPatternAndInstSTEP(e0) :
        e0 \in { [e EXCEPT !.SELECTOR_CODE[2] = elementId] } } } } })

TrackKey ==
  \E elementId \in Tracks :
    /\ alert = Undef
    /\ ~TRACK_WRITE
    /\ \E e \in {Eng} : \E r \in {selectTrack(e, elementId)} : Commit(r)

\* the three pattern group keys without SHIFT
GroupKey ==
  \E elementId \in Groups :
    /\ alert = Undef
    /\ ~TRACK_WRITE
    /\ \E e \in {Eng} : \E r \in {selectPatternGroup(e, elementId)} : Commit(r)

\* a preset of empty patterns whose queue is one pattern of either bank, and
\* the track and pattern group keys
SpecIndex ==
  /\ \E t \in TempoValues, b \in Banks, n \in 0 .. (GroupSize - 1) :
       \E e \in {setMemory([Constructed(t, FALSE) EXCEPT !.rec = "none"],
                           generateMemory, << <<b, "T1", "PG1", n>> >>)} :
         Load(e)
  /\ [][TrackKey \/ GroupKey]_vars

\* C33: the index of the edited address, which runs over every bank, track,
\* pattern group and pattern number, is an index of the memory (0..383) and
\* no other address has the same index
C33_IndexInjective ==
  /\ SELECTOR_CODE \in AllAddresses
  /\ getPatternMemoryLocation(SELECTOR_CODE) \in DOMAIN memory
  /\ DOMAIN memory = 0 .. (MemorySize - 1)
  /\ \A a \in AllAddresses :
       a # SELECTOR_CODE =>
         getPatternMemoryLocation(a) # getPatternMemoryLocation(SELECTOR_CODE)

\* the last address has the last index
C33_Witness ==
  /\ SELECTOR_CODE = <<"B2", "T4", "PG3", 15>>
  /\ getPatternMemoryLocation(SELECTOR_CODE) = MemorySize - 1

(***************************************************************************)
(* The queue cursor.                                                       *)
(***************************************************************************)
\* C34: in every reachable state the queue cursor is the index of an
\* existing queue entry
C34_CursorInQueue ==
  /\ patternNumber >= 0
  /\ patternNumber < Len(playbackQueue)
  /\ QAt(playbackQueue, patternNumber) # Undef

(***************************************************************************)
(* Pattern changes of a running machine.                                   *)
(***************************************************************************)
\* patterns of three steps, the odd ones played in reverse, and patterns
\* with different windows that are all played forward
EnterPresets ==
  { [i \in MemIndices |-> Pat(0, 3, i % 2)],
    [i \in MemIndices |-> Pat(i % 2, 2 + (i % 2), 0)] }

\* playback of the queue, with Cycle on or off: the address changes by queue
\* advance only
SpecAdvance ==
  /\ \E t \in TempoValues, mem \in EnterPresets, q \in Queues :
       \E e \in {setMemory([Constructed(t, FALSE) EXCEPT !.rec = "enter"], mem, q)} :
         Load(e)
  /\ [][StartKey \/ CycleKey \/ Tick \/ TimerFire]_vars

\* playback of the queue with the FWD and BACK keys pressed
SpecEnter ==
  /\ \E t \in TempoValues, mem \in EnterPresets, q \in Queues :
       \E e \in {setMemory([Constructed(t, FALSE) EXCEPT !.rec = "enter"], mem, q)} :
         Load(e)
  /\ [][StartKey \/ CycleKey \/ Tick \/ TimerFire \/ FwdKey \/ BackKey]_vars

\* C35: the first step dispatched after the edited address changed on a
\* running machine is the entry edge of the pattern played: its first step
\* when the beat runner goes forward, its last step when it goes backward
C35_EntryEdge ==
  \A i \in 1 .. Len(dispatched) :
    dispatched[i].entry =>
      dispatched[i].step = IF dispatched[i].inv = 0 THEN dispatched[i].first
                           ELSE dispatched[i].base - 1

(***************************************************************************)
(* The caches of the scheduler.                                            *)
(***************************************************************************)
\* C36: whenever a step is dispatched, the cached BASE, first step, scale,
\* shuffle and flam are the fields of the record whose step is played
C36_CachesMatchRecord ==
  \A i \in 1 .. Len(dispatched) : dispatched[i].cached = dispatched[i].held

(***************************************************************************)
(* Suspend and resume of the audio context.                                *)
(***************************************************************************)
\* safariOnlyStopIfPlayed: a running machine is stopped through
\* DisplaySetters['STOP']('', 'STOP') and the stop is remembered
safariOnlyStopIfPlayed(e) ==
  IF e.GLOBAL_SSC = "STOP" THEN e
  ELSE The({ [e2 EXCEPT !.safariPlaybackStop = TRUE] :
             e2 \in { playbackSTOP(e1) :
             e1 \in { [e EXCEPT !.GLOBAL_SSC = "STOP", !.stopCause = "suspend"] } } })

\* safariOnlyResumeIfStopped: a remembered stop is undone through
\* DisplaySetters['STOP']('', 'CONT')
safariOnlyResumeIfStopped(e) ==
  IF ~e.safariPlaybackStop THEN e
  ELSE The({ [e2 EXCEPT !.safariPlaybackStop = FALSE] :
             e2 \in { playbackCONT(e1) :
             e1 \in { [e EXCEPT !.GLOBAL_SSC = "CONT"] } } })

SuspendCmd ==
  \E e \in {Eng} : \E r \in {safariOnlyStopIfPlayed(e)} : Commit(r)

\* the command is followed while at most one callback is pending
ResumeCmd ==
  /\ Len(timers) <= 1
  /\ \E e \in {Eng} : \E r \in {safariOnlyResumeIfStopped(e)} : Commit(r)

\* Start, Stop/Continue, suspend and resume of a machine whose clock runs
SpecSuspend ==
  /\ \E t \in TempoValues, mem \in {FactoryPreset}, q \in EditQueues :
       \E e \in {setMemory([Constructed(t, TRUE) EXCEPT !.rec = "none"], mem, q)} :
         Load(e)
  /\ [][StartKey \/ StopKey \/ SuspendCmd \/ ResumeCmd \/ Tick \/ TimerFire]_vars

\* C37: at most one scheduler callback is pending at any time
C37_OneCallbackPending == Len(timers) <= 1

(***************************************************************************)
(* Preset files that pass the format check of #loadPreset.                 *)
(***************************************************************************)
\* The check reads data[0], data[1] and data[2] for truthiness only (an empty
\* array is truthy) and no field of a pattern record: files with the records
\* and queues of SnapFiles and SnapQueues, with a record whose window is
\* empty, and with an empty queue all pass.
PassedFiles ==
  { [patterns |-> file, queue |-> q, cycle |-> FALSE, fault |-> "none"] :
      file \in SnapFiles \cup { [i \in {0} |-> Pat(2, 1, 0)] },
      q \in SnapQueues \cup { <<>> } }

\* LOAD of a file that passes the format check
LoadPassedFileKey ==
  \E data \in PassedFiles :
    /\ alert = Undef
    /\ ~(isQueueTable /\ ~TRACK_WRITE)
    /\ \E e \in {Eng} : \E r \in {loadPresetFile(e, data)} : Commit(r)

\* files are loaded one after another on a stopped machine
SpecRestore ==
  /\ InitSnap
  /\ [][
       \/ LoadPassedFileKey \/ LoadBadFileKey \/ NoticeOK
       ]_vars

\* C38: after a preset file that passed the format check was loaded, the
\* Playback Queue is not empty, holds at most 120 entries, every entry is a
\* valid address, and every pattern record has 0 <= firstStep < BASE <= 16
C38_RestoredIsValid ==
  /\ playbackQueue # <<>>
  /\ Len(playbackQueue) <= QueueCapacity
  /\ \A i \in 1 .. Len(playbackQueue) : playbackQueue[i] \in AllAddresses
  /\ \A i \in DOMAIN memory :
       /\ 0 <= memory[i].firstBeat
       /\ memory[i].firstBeat < memory[i].BASE
       /\ memory[i].BASE <= DefaultBASE

(***************************************************************************)
(* One pass left alone: Start is the last command.                         *)
(***************************************************************************)
\* MainKey.handleClick('START') on a machine that was never started
StartOnce ==
  /\ GLOBAL_SSC = "STOP"
  /\ stopCause = "none"
  /\ StartKey

\* A stopped machine with Cycle off and SHIFT off, the cursor on any queue
\* entry (a slot click); after Start only the host acts.  The timer keeps
\* firing and the audio clock keeps advancing.
SpecLive ==
  /\ \E t \in TempoValues, st \in BOOLEAN,
        mem \in RunPresets \cup ShortPresets \cup {FactoryPreset},
        q \in Queues, a \in 0 .. MaxQueue - 1 :
       /\ a < Len(q)
       /\ \E e \in {switchToPattern(
                      setMemory([Constructed(t, st) EXCEPT !.rec = "none"], mem, q), a)} :
            Load(e)
  /\ [][StartOnce \/ Tick \/ TimerFire]_vars
  /\ WF_vars(Tick)
  /\ WF_vars(TimerFire)

\* C39: with Cycle off, SHIFT off and no command after Start, a running
\* machine is eventually stopped, whatever the queue and the cursor at Start
C39_EventuallyStopped == Running ~> (GLOBAL_SSC = "STOP")

C39_Witness ==
  /\ GLOBAL_SSC = "STOP"
  /\ stopCause = "terminal"
  /\ Len(playbackQueue) = MaxQueue
  /\ invert = 1
  /\ timers = <<>>

(***************************************************************************)
(* Offline rendering.                                                      *)
(***************************************************************************)
\* the beats renderMachine's inner loop visits: firstBeat .. base-1, or
\* base-1 down to firstBeat when the record's invert is set
renderBeats(p) ==
  [k \in 1 .. (p.BASE - p.firstBeat) |->
     IF p.invert = 0 THEN p.firstBeat + k - 1 ELSE p.BASE - k]

\* the inner loop of renderMachine for queue entry i: #playMachine at
\* nextNoteTime, then secondsPerBeat is replaced by its shuffled value (the
\* variable is declared outside the loop and set once per queue entry),
\* nextNoteTime advances by it and the flam lead is taken from it.  An event
\* is <<entry, beat, interval to the next event, flam lead of the next>>.
RECURSIVE renderPattern(_, _, _, _, _)
renderPattern(i, p, beats, secondsPerBeat, out) ==
  IF beats = <<>> THEN out
  ELSE LET beatNumber == Head(beats)
           sh == (p.shuffle * secondsPerBeat) \div SwingFactor
           shuffled == IF beatNumber % 2 = 0 THEN secondsPerBeat + sh
                                              ELSE secondsPerBeat - sh
           lead == (((100 \div FlamSpread) * p.flam + FlamBase) * shuffled) \div 100
       IN renderPattern(i, p, Tail(beats), shuffled,
                        Append(out, <<i, beatNumber, shuffled, lead>>))

\* renderMachine: the queue is walked once from its head
RECURSIVE renderQueue(_, _, _)
renderQueue(e, i, out) ==
  IF i >= Len(e.playbackQueue) THEN out
  ELSE LET patternPlayed ==
             e.memory[getPatternMemoryLocation(e.playbackQueue[i + 1])]
       IN renderQueue(e, i + 1,
            renderPattern(i, patternPlayed, renderBeats(patternPlayed),
                          NominalBeat(e.tempo, GridOf(patternPlayed.scale)), out))

renderMachine(e) == [e EXCEPT !.offline = renderQueue(e, 0, <<>>)]

\* the RENDER command, given once
RenderKey ==
  /\ offline = <<>>
  /\ \E e \in {Eng} : \E r \in {renderMachine(e)} : Commit(r)

\* one live pass from the queue head with Cycle off, and one rendering
SpecRender ==
  /\ \E t \in TempoValues, st \in BOOLEAN, q \in Queues,
        mem \in SwingPresets \cup RunPresets \cup FlamPresets :
       \E e \in {setMemory([Constructed(t, st) EXCEPT !.rec = "render"], mem, q)} :
         Load(e)
  /\ [][RenderKey \/ StartOnce \/ Tick \/ TimerFire]_vars

\* C40: the rendering holds the (queue entry, step) dispatches of the live
\* pass in the same order, with the same interval after every step but the
\* last and the same flam lead for the step that follows
C40_RenderMatchesLive ==
  (GLOBAL_SSC = "STOP" /\ stopCause = "terminal" /\ offline # <<>>) =>
    /\ Len(offline) = Len(log)
    /\ \A k \in 1 .. Len(log) :
         /\ offline[k][1] = log[k][1]
         /\ offline[k][2] = log[k][2]
         /\ k < Len(log) => offline[k] = log[k]

====
